---- MODULE Spec2Model ----
(***************************************************************************)
(* Demo follow-up system: the scheduling-and-execution engine.             *)
(*                                                                         *)
(* The store (Supabase/Postgres) is modelled as four append-only tables    *)
(* (demos, scheduled_jobs, messages, replies), each a sequence of rows     *)
(* whose index is the row id.  Every awaited round trip to the store or    *)
(* to the transport is one atomic step; the code between two awaits is     *)
(* folded into the step that precedes it.  Sweep invocations (GET          *)
(* /api/cron) and webhook/sync handlers are processes that interleave at   *)
(* these steps.  Time is in milliseconds, as in the code.                  *)
(***************************************************************************)
EXTENDS Integers, Sequences, FiniteSets, TLC

(***************************************************************************)
(* Bounds of the model                                                     *)
(***************************************************************************)
MaxTicks == 2          \* the clock stops after this many advances
MaxSends == 2          \* sends the transport accepts per (booking, kind)
MaxAttempts == 3       \* failed dispatches counted per (booking, kind)
MaxReplies == 1        \* inbound replies per behaviour
MaxDeliveries == 2     \* reply rows in the reply-handling specifications

(***************************************************************************)
(* Program constants                                                       *)
(***************************************************************************)
NULL == -1                 \* SQL NULL in a timestamp column
BatchLimit == 10           \* .limit(10) of the candidate query
StaleLeaseMinutes == 5     \* INTERVAL '5 minutes' of release_stale_jobs
MINUTE == 60 * 1000
HOUR == 60 * MINUTE
DAY == 24 * HOUR

Events == {"e1"}             \* booking-source event ids
DemoIds == 1..Cardinality(Events)
Executors == {"x1", "x2"}
Handlers == {"h1", "h2"}

DemoType == {"SAME_DAY", "NEXT_DAY", "FUTURE"}
DemoStatus == {"PENDING", "CONFIRMED", "RESCHEDULED", "CANCELLED", "NO_SHOW", "COMPLETED"}
MessageType ==
    {"CONFIRM_INITIAL", "SMS_CONFIRM", "SMS_REMINDER", "JOIN_LINK", "SMS_URGENT",
     "POST_NO_SHOW", "EVENING_BEFORE", "CONFIRM_REMINDER", "VALUE_BOMB",
     "SMS_DAY_BEFORE", "DAY_OF_REMINDER"}

TIMING ==
    [SAME_DAY |-> [T_MINUS_30M |-> 30 * 60 * 1000, T_MINUS_10M |-> 10 * 60 * 1000,
                   T_PLUS_8M |-> 8 * 60 * 1000, T_PLUS_1H |-> 60 * 60 * 1000],
     NEXT_DAY |-> [T_MINUS_4H |-> 4 * 60 * 60 * 1000, T_MINUS_30M |-> 30 * 60 * 1000,
                   T_MINUS_10M |-> 10 * 60 * 1000, T_PLUS_8M |-> 8 * 60 * 1000,
                   T_PLUS_1H |-> 60 * 60 * 1000],
     FUTURE |-> [T_MINUS_48H |-> 48 * 60 * 60 * 1000, T_MINUS_24H |-> 24 * 60 * 60 * 1000,
                 T_MINUS_4H |-> 4 * 60 * 60 * 1000, T_MINUS_30M |-> 30 * 60 * 1000,
                 T_MINUS_10M |-> 10 * 60 * 1000, T_PLUS_8M |-> 8 * 60 * 1000,
                 T_PLUS_1H |-> 60 * 60 * 1000]]

Step(t, o) == [messageType |-> t, offset |-> o, specialTiming |-> "NONE"]

SEQUENCES ==
    [SAME_DAY |->
        << Step("CONFIRM_INITIAL", 0),
           Step("SMS_CONFIRM", 2000),
           Step("SMS_REMINDER", 0 - TIMING.SAME_DAY.T_MINUS_30M),
           Step("JOIN_LINK", 0 - TIMING.SAME_DAY.T_MINUS_10M),
           Step("SMS_URGENT", TIMING.SAME_DAY.T_PLUS_8M),
           Step("POST_NO_SHOW", TIMING.SAME_DAY.T_PLUS_1H) >>,
     NEXT_DAY |->
        << Step("CONFIRM_INITIAL", 0),
           Step("SMS_CONFIRM", 2000),
           [messageType |-> "EVENING_BEFORE", offset |-> 0, specialTiming |-> "EVENING_BEFORE"],
           Step("CONFIRM_REMINDER", 0 - TIMING.NEXT_DAY.T_MINUS_4H),
           Step("SMS_REMINDER", 0 - TIMING.NEXT_DAY.T_MINUS_30M),
           Step("JOIN_LINK", 0 - TIMING.NEXT_DAY.T_MINUS_10M),
           Step("SMS_URGENT", TIMING.NEXT_DAY.T_PLUS_8M),
           Step("POST_NO_SHOW", TIMING.NEXT_DAY.T_PLUS_1H) >>,
     FUTURE |->
        << Step("CONFIRM_INITIAL", 0),
           Step("SMS_CONFIRM", 2000),
           Step("VALUE_BOMB", 0 - TIMING.FUTURE.T_MINUS_48H),
           Step("SMS_DAY_BEFORE", 0 - TIMING.FUTURE.T_MINUS_24H),
           Step("DAY_OF_REMINDER", 0 - TIMING.FUTURE.T_MINUS_4H),
           Step("SMS_REMINDER", 0 - TIMING.FUTURE.T_MINUS_30M),
           Step("JOIN_LINK", 0 - TIMING.FUTURE.T_MINUS_10M),
           Step("SMS_URGENT", TIMING.FUTURE.T_PLUS_8M),
           Step("POST_NO_SHOW", TIMING.FUTURE.T_PLUS_1H) >>]

\* SMS message types (routing of sendMessage)
SMS_TYPES == {"SMS_CONFIRM", "SMS_REMINDER", "SMS_JOIN_LINK", "SMS_URGENT"}

\* the kinds EmailTemplates.getTemplate / SmsTemplates.getTemplate define
EmailTemplateKinds ==
    {"CONFIRM_INITIAL", "CONFIRM_REMINDER", "DAY_OF_REMINDER", "JOIN_LINK",
     "JOIN_URGENT", "SOONER_OFFER", "RECEIPT"}
SmsTemplateKinds ==
    {"SMS_CONFIRM", "SMS_REMINDER", "EVENING_BEFORE", "SMS_DAY_BEFORE", "SMS_URGENT"}

Min(a, b) == IF a <= b THEN a ELSE b

\* Math.trunc(a / b) for b > 0 (date-fns differenceInHours rounds toward zero)
TruncDiv(a, b) == IF a >= 0 THEN a \div b ELSE 0 - ((0 - a) \div b)

differenceInHours(later, earlier) == TruncDiv(later - earlier, HOUR)

classifyDemoType(scheduledAt, t) ==
    LET hoursUntilDemo == differenceInHours(scheduledAt, t)
    IN  IF hoursUntilDemo <= 12 THEN "SAME_DAY"
        ELSE IF hoursUntilDemo <= 36 THEN "NEXT_DAY"
        ELSE "FUTURE"

VARIABLES
    now,        \* the clock, ms
    demos,      \* table demos
    jobs,       \* table scheduled_jobs
    messages,   \* table messages
    replies,    \* table replies
    sent,       \* transport: accepted sends, [demo_id, message_type] -> count
    attempts,   \* history: failed dispatches, [demo_id, message_type] -> count
    xs,         \* sweep invocations
    hs          \* handler invocations

vars == <<now, demos, jobs, messages, replies, sent, attempts, xs, hs>>

NoPhone == "NULL"

Key(d, k) == <<d, k>>
Keys == DemoIds \X MessageType

Ids(table) == DOMAIN table

(***************************************************************************)
(* Store primitives of the sweep                                           *)
(***************************************************************************)

\* WHERE processing = TRUE AND processing_started_at < NOW() - INTERVAL '5 minutes'
IsStale(j, t) ==
    /\ j.processing
    /\ j.processing_started_at # NULL
    /\ j.processing_started_at < t - StaleLeaseMinutes * MINUTE

\* plpgsql: UPDATE ... RETURNING 1 INTO released raises TOO_MANY_ROWS when the
\* update returns more than one row; the function's update is then rolled back
\* (and GET ignores the error of the rpc).
release_stale_jobs(js, t) ==
    LET stale == {i \in Ids(js) : IsStale(js[i], t)}
    IN  IF Cardinality(stale) > 1
        THEN js
        ELSE [i \in Ids(js) |->
                IF i \in stale
                THEN [js[i] EXCEPT !.processing = FALSE, !.processing_started_at = NULL]
                ELSE js[i]]

\* the candidate query of GET
DueJobs(js, t) ==
    {i \in Ids(js) :
        /\ ~js[i].executed
        /\ ~js[i].cancelled
        /\ ~js[i].processing
        /\ js[i].scheduled_for <= t}

\* .limit(10) with no ORDER BY: any BatchLimit of the due rows
Batches(js, t) ==
    LET due == DueJobs(js, t)
    IN  {b \in SUBSET due : Cardinality(b) = Min(Cardinality(due), BatchLimit)}

\* faulty variant: a claim that does not test the cancelled flag
ClaimGuardIgnoresCancel(j) == ~j.executed /\ ~j.processing

\* faulty variant: a claim that does not test the lock
ClaimGuardNoLock(j) == ~j.executed /\ ~j.cancelled

\* the WHERE clause of the claim update (Step 1)
ClaimGuard(j) == ~j.executed /\ ~j.cancelled /\ ~j.processing

ClaimUpdate(j, t) == [j EXCEPT !.processing = TRUE, !.processing_started_at = t]

\* faulty variant: a skip that only releases the lock
markCompletedOnlyReleases(js, id) ==
    [js EXCEPT ![id] = [@ EXCEPT !.processing = FALSE, !.processing_started_at = NULL]]

\* faulty variant: executed is set but the lock is kept
markCompletedKeepLock(js, id) == [js EXCEPT ![id] = [@ EXCEPT !.executed = TRUE]]

markCompleted(js, id) ==
    [js EXCEPT ![id] = [@ EXCEPT !.executed = TRUE,
                                  !.processing = FALSE,
                                  !.processing_started_at = NULL]]

\* faulty variant: a catch block that only rethrows
RethrowOnly(js, id) == js

\* faulty variant: a catch block that gives the job up as done
ReleaseLockMarksExecuted(js, id) ==
    [js EXCEPT ![id] = [@ EXCEPT !.executed = TRUE, !.processing = FALSE,
                                  !.processing_started_at = NULL]]

\* the catch block of processJobWithLock
ReleaseLock(js, id) ==
    [js EXCEPT ![id] = [@ EXCEPT !.processing = FALSE, !.processing_started_at = NULL]]

\* faulty variant: a duplicate check that never finds the row
MessageNeverFound(ms, d, k) == FALSE

\* db.messages.exists / the Step 5 query
MessageExists(ms, d, k) ==
    \E i \in Ids(ms) : ms[i].demo_id = d /\ ms[i].message_type = k

\* faulty variant: a messages table without messages_demo_type_unique
NoMessageConstraint(ms, d, k) == FALSE

\* messages_demo_type_unique: does the insert raise 23505?
MessageInsertConflicts(ms, d, k) == MessageExists(ms, d, k)

\* faulty variant: a re-validation that lets cancelled and rescheduled demos pass
TerminalStatusesLax == {"COMPLETED", "NO_SHOW"}

TerminalStatuses == {"CANCELLED", "RESCHEDULED", "COMPLETED", "NO_SHOW"}

\* faulty variant: a send that goes to the transport without a template
SendIgnoresMissingTemplate(ms, d, k, phone) ==
    IF k \in SMS_TYPES
    THEN phone = NoPhone \/ MessageExists(ms, d, k)
    ELSE MessageExists(ms, d, k)

\* sendSms / sendEmail up to the transport call: TRUE when the call returns null
\* before reaching the transport
SendReturnsNull(ms, d, k, phone) ==
    IF k \in SMS_TYPES
    THEN \/ phone = NoPhone
         \/ MessageExists(ms, d, k)
         \/ k \notin SmsTemplateKinds
    ELSE \/ MessageExists(ms, d, k)
         \/ k \notin EmailTemplateKinds

\* Step 6: const idempotencyKey = `${job.demo_id}-${job.message_type}`
idempotencyKey(job) == Key(job.demo_id, job.message_type)

\* what sendMessage(demo, k, key) hands to the transport: sendSms is called
\* without the key and builds { body, from, to }; sendEmail receives the key
\* and builds { from, to, subject, html, text, replyTo }
TransportRequest(demo, k, key) ==
    IF k \in SMS_TYPES
    THEN [channel |-> "SMS", to |-> demo.phone, body |-> k]
    ELSE [channel |-> "EMAIL", to |-> demo.email, subject |-> k, text |-> k]

(***************************************************************************)
(* Sweep invocation p (GET /api/cron)                                      *)
(***************************************************************************)
IdleX == [pc |-> "idle", now |-> 0, batch |-> {}, job |-> 0, phone |-> NoPhone,
          res |-> "none"]

SetX(p, r) == xs' = [xs EXCEPT ![p] = r]

\* faulty variant: an error ends the loop
AfterJobStopsOnError(x, result) ==
    [x EXCEPT !.pc = IF x.batch = {} \/ result = "error" THEN "done" ELSE "claim",
              !.job = 0, !.phone = NoPhone, !.res = result]

\* where the loop of GET goes after one job's result
AfterJob(x, result) ==
    [x EXCEPT !.pc = IF x.batch = {} THEN "done" ELSE "claim",
              !.job = 0, !.phone = NoPhone, !.res = result]

SweepStart(p) ==
    /\ xs[p].pc = "idle"
    /\ jobs' = release_stale_jobs(jobs, now)
    /\ SetX(p, [xs[p] EXCEPT !.pc = "select", !.now = now])
    /\ UNCHANGED <<now, demos, messages, replies, sent, attempts, hs>>

SweepSelect(p) ==
    /\ xs[p].pc = "select"
    /\ \E b \in Batches(jobs, xs[p].now) :
          SetX(p, [xs[p] EXCEPT !.pc = IF b = {} THEN "done" ELSE "claim",
                                !.now = 0, !.batch = b])
    /\ UNCHANGED <<now, demos, jobs, messages, replies, sent, attempts, hs>>

\* Step 1 of processJobWithLock for the next job j of the batch
Claim(p, j) ==
    /\ xs[p].pc = "claim"
    /\ j \in xs[p].batch
    /\ LET x == [xs[p] EXCEPT !.batch = @ \ {j}]
       IN  IF ClaimGuard(jobs[j])
           THEN /\ jobs' = [jobs EXCEPT ![j] = ClaimUpdate(@, now)]
                /\ SetX(p, [x EXCEPT !.pc = "lookup", !.job = j, !.res = "none"])
           ELSE /\ jobs' = jobs
                /\ SetX(p, AfterJob(x, "already_claimed"))
    /\ UNCHANGED <<now, demos, messages, replies, sent, attempts, hs>>

\* faulty variant: the join link goes out whether or not the demo is confirmed
NoConfirmationNeeded(job, demo) == FALSE

\* Step 4: JOIN_LINK on FUTURE demos requires confirmation
NotConfirmedForJoinLink(job, demo) ==
    /\ job.message_type = "JOIN_LINK"
    /\ demo.demo_type = "FUTURE"
    /\ demo.status # "CONFIRMED"

\* Steps 2-4: read the demo, re-validate
Lookup(p) ==
    /\ xs[p].pc = "lookup"
    /\ LET job == jobs[xs[p].job]
           demo == demos[job.demo_id]
       IN  IF demo.status \in TerminalStatuses
           THEN SetX(p, [xs[p] EXCEPT !.pc = "complete", !.res = "skipped_terminal_state"])
           ELSE IF NotConfirmedForJoinLink(job, demo)
           THEN SetX(p, [xs[p] EXCEPT !.pc = "complete", !.res = "skipped_not_confirmed"])
           ELSE SetX(p, [xs[p] EXCEPT !.pc = "check", !.phone = demo.phone])
    /\ UNCHANGED <<now, demos, jobs, messages, replies, sent, attempts, hs>>

\* Step 2 finds no row or returns an error: markCompleted, 'skipped_no_demo'
LookupNoDemo(p) ==
    /\ xs[p].pc = "lookup"
    /\ SetX(p, [xs[p] EXCEPT !.pc = "complete", !.res = "skipped_no_demo"])
    /\ UNCHANGED <<now, demos, jobs, messages, replies, sent, attempts, hs>>

\* Step 5: already sent?
CheckSent(p) ==
    /\ xs[p].pc = "check"
    /\ LET job == jobs[xs[p].job]
       IN  IF MessageExists(messages, job.demo_id, job.message_type)
           THEN SetX(p, [xs[p] EXCEPT !.pc = "complete", !.res = "already_sent"])
           ELSE SetX(p, [xs[p] EXCEPT !.pc = "send"])
    /\ UNCHANGED <<now, demos, jobs, messages, replies, sent, attempts, hs>>

\* Step 6, MessagingService.sendMessage up to the transport call
SendBegin(p) ==
    /\ xs[p].pc = "send"
    /\ LET job == jobs[xs[p].job]
       IN  IF SendReturnsNull(messages, job.demo_id, job.message_type, xs[p].phone)
           THEN SetX(p, [xs[p] EXCEPT !.pc = "complete", !.res = "sent"])
           ELSE SetX(p, [xs[p] EXCEPT !.pc = "transport"])
    /\ UNCHANGED <<now, demos, jobs, messages, replies, sent, attempts, hs>>

\* transporter.sendMail / twilio.messages.create accepts the message
TransportAccepts(p) ==
    /\ xs[p].pc = "transport"
    /\ LET job == jobs[xs[p].job]
           key == Key(job.demo_id, job.message_type)
       IN  /\ sent[key] < MaxSends
           /\ sent' = [sent EXCEPT ![key] = @ + 1]
    /\ SetX(p, [xs[p] EXCEPT !.pc = "insert"])
    /\ UNCHANGED <<now, demos, jobs, messages, replies, attempts, hs>>

\* the transport call throws; sendEmail/sendSms rethrow
TransportFails(p) ==
    /\ xs[p].pc = "transport"
    /\ LET job == jobs[xs[p].job]
           key == Key(job.demo_id, job.message_type)
       IN  attempts' = [attempts EXCEPT ![key] = Min(@ + 1, MaxAttempts)]
    /\ SetX(p, [xs[p] EXCEPT !.pc = "fail"])
    /\ UNCHANGED <<now, demos, jobs, messages, replies, sent, hs>>

\* db.messages.insert after a successful send
InsertMessage(p) ==
    /\ xs[p].pc = "insert"
    /\ LET job == jobs[xs[p].job]
       IN  IF MessageInsertConflicts(messages, job.demo_id, job.message_type)
           THEN /\ messages' = messages            \* 23505: return null
                /\ SetX(p, [xs[p] EXCEPT !.pc = "complete", !.res = "sent"])
           ELSE /\ messages' = Append(messages,
                        [demo_id |-> job.demo_id, message_type |-> job.message_type])
                /\ SetX(p, [xs[p] EXCEPT !.pc = "complete", !.res = "sent"])
    /\ UNCHANGED <<now, demos, jobs, replies, sent, attempts, hs>>

\* db.messages.insert fails with an error other than 23505: rethrown
InsertFails(p) ==
    /\ xs[p].pc = "insert"
    /\ SetX(p, [xs[p] EXCEPT !.pc = "fail"])
    /\ UNCHANGED <<now, demos, jobs, messages, replies, sent, attempts, hs>>

\* markCompleted, then the return of processJobWithLock
Complete(p) ==
    /\ xs[p].pc = "complete"
    /\ jobs' = markCompleted(jobs, xs[p].job)
    /\ SetX(p, AfterJob(xs[p], xs[p].res))
    /\ UNCHANGED <<now, demos, messages, replies, sent, attempts, hs>>

\* the catch block: release the lock, rethrow; GET records 'error'
Fail(p) ==
    /\ xs[p].pc = "fail"
    /\ jobs' = ReleaseLock(jobs, xs[p].job)
    /\ SetX(p, AfterJob(xs[p], "error"))
    /\ UNCHANGED <<now, demos, messages, replies, sent, attempts, hs>>

\* GET returns its response
SweepReturn(p) ==
    /\ xs[p].pc = "done"
    /\ SetX(p, IdleX)
    /\ UNCHANGED <<now, demos, jobs, messages, replies, sent, attempts, hs>>

InClaimedRegion(x) ==
    x.pc \in {"lookup", "check", "send", "transport", "insert", "complete", "fail"}

\* the invocation dies while it holds a claim (function timeout, process kill)
Crash(p) ==
    /\ InClaimedRegion(xs[p])
    /\ SetX(p, IdleX)
    /\ UNCHANGED <<now, demos, jobs, messages, replies, sent, attempts, hs>>

\* time passes: the clock is observed at intervals just over one lease
LeasePeriod == StaleLeaseMinutes * MINUTE + 1000

Tick ==
    /\ now < MaxTicks * LeasePeriod
    /\ now' = now + LeasePeriod
    /\ UNCHANGED <<demos, jobs, messages, replies, sent, attempts, xs, hs>>

(***************************************************************************)
(* Scheduler: timeline and job rows                                        *)
(***************************************************************************)

\* 7pm local time the evening before the demo (tz: the zone's offset in ms)
calculateEveningBefore(demo) ==
    LET demoLocal == demo.scheduled_at + demo.timezone
        midnight == demoLocal - (demoLocal % DAY)
        eveningLocal == midnight - DAY + 19 * HOUR
    IN  eveningLocal - demo.timezone

\* faulty variant: every step is placed relative to the meeting time
StepTimeFromMeeting(demo, step, t) ==
    IF step.specialTiming = "EVENING_BEFORE" THEN calculateEveningBefore(demo)
    ELSE demo.scheduled_at + step.offset

\* the send time scheduleSequence computes for one step
StepTime(demo, step, t) ==
    IF step.specialTiming = "EVENING_BEFORE" THEN calculateEveningBefore(demo)
    ELSE IF step.messageType \in {"CONFIRM_INITIAL", "SMS_CONFIRM"} THEN t + step.offset
    ELSE demo.scheduled_at + step.offset

\* faulty variant: past steps are back-filled
StepNeverSkipped(scheduledFor, t) == FALSE

\* "Skip if in the past"
StepSkipped(scheduledFor, t) == scheduledFor < t

RECURSIVE Timeline(_, _, _)
\* the scheduleJob calls of scheduleSequence(demo) with now = t, in order
Timeline(demo, steps, t) ==
    IF steps = << >> THEN << >>
    ELSE LET step == Head(steps)
             scheduledFor == StepTime(demo, step, t)
             rest == Timeline(demo, Tail(steps), t)
         IN  IF StepSkipped(scheduledFor, t)
             THEN rest
             ELSE << [op |-> "upsert", message_type |-> step.messageType,
                      scheduled_for |-> scheduledFor] >> \o rest

scheduleSequence(demo, t) == Timeline(demo, SEQUENCES[demo.demo_type], t)

JobConflicts(js, d, k) == {i \in Ids(js) : js[i].demo_id = d /\ js[i].message_type = k}

\* faulty variant: a plain insert into a table without UNIQUE(demo_id, message_type)
JobsInsert(js, d, k, scheduledFor) ==
    Append(js, [demo_id |-> d, message_type |-> k, scheduled_for |-> scheduledFor,
                executed |-> FALSE, cancelled |-> FALSE,
                processing |-> FALSE, processing_started_at |-> NULL])

\* db.jobs.upsert(..., { onConflict: 'demo_id,message_type' })
JobsUpsert(js, d, k, scheduledFor) ==
    IF JobConflicts(js, d, k) # {}
    THEN [i \in Ids(js) |->
            IF i \in JobConflicts(js, d, k)
            THEN [js[i] EXCEPT !.scheduled_for = scheduledFor,
                               !.executed = FALSE, !.cancelled = FALSE]
            ELSE js[i]]
    ELSE Append(js, [demo_id |-> d, message_type |-> k, scheduled_for |-> scheduledFor,
                     executed |-> FALSE, cancelled |-> FALSE,
                     processing |-> FALSE, processing_started_at |-> NULL])

\* faulty variant: a cancel without the executed = false filter
JobsCancelAll(js, d) ==
    [i \in Ids(js) |->
        IF js[i].demo_id = d THEN [js[i] EXCEPT !.cancelled = TRUE] ELSE js[i]]

\* db.jobs.cancel(demoId): UPDATE ... SET cancelled = true WHERE demo_id AND executed = false
JobsCancel(js, d) ==
    [i \in Ids(js) |->
        IF js[i].demo_id = d /\ ~js[i].executed
        THEN [js[i] EXCEPT !.cancelled = TRUE]
        ELSE js[i]]

\* faulty variant: a cancel by kinds without the demo_id filter
JobsCancelTypesAnyBooking(js, d, kinds) ==
    [i \in Ids(js) |->
        IF ~js[i].executed /\ js[i].message_type \in kinds
        THEN [js[i] EXCEPT !.cancelled = TRUE]
        ELSE js[i]]

\* db.jobs.cancel(demoId, messageTypes): the same UPDATE with
\* AND message_type IN (messageTypes)
JobsCancelTypes(js, d, kinds) ==
    [i \in Ids(js) |->
        IF js[i].demo_id = d /\ ~js[i].executed /\ js[i].message_type \in kinds
        THEN [js[i] EXCEPT !.cancelled = TRUE]
        ELSE js[i]]

(***************************************************************************)
(* Demos                                                                   *)
(***************************************************************************)
\* the booking the source delivers for an event id
EventInfo(e) ==
    [email |-> "a@x.io", phone |-> "+15550001", start_time |-> 9 * MINUTE, timezone |-> 0]

FindByCalendlyEventId(ds, e) == {i \in Ids(ds) : ds[i].calendly_event_id = e}

OpenStatuses == {"PENDING", "CONFIRMED"}

\* db.demos.findByEmail: open demos of that address, earliest first, limit 1
FindByEmail(ds, email) ==
    LET c == {i \in Ids(ds) : ds[i].email = email /\ ds[i].status \in OpenStatuses}
    IN  {i \in c : \A o \in c : ds[i].scheduled_at <= ds[o].scheduled_at}

\* the lookup of the SMS webhook: demos of that phone, latest first, limit 1
FindByPhoneSms(ds, phone) ==
    LET c == {i \in Ids(ds) : ds[i].phone = phone}
    IN  {i \in c : \A o \in c : ds[i].scheduled_at >= ds[o].scheduled_at}

NewDemo(e, t) ==
    [calendly_event_id |-> e,
     email |-> EventInfo(e).email,
     phone |-> EventInfo(e).phone,
     scheduled_at |-> EventInfo(e).start_time,
     timezone |-> EventInfo(e).timezone,
     demo_type |-> classifyDemoType(EventInfo(e).start_time, t),
     status |-> "PENDING",
     confirmed_at |-> NULL]

\* faulty variant: confirming a booking that is already CONFIRMED reopens it
UpdateStatusReopens(ds, id, status, t) ==
    [ds EXCEPT ![id] = IF status = "CONFIRMED"
                       THEN (IF @.status = "CONFIRMED"
                             THEN [@ EXCEPT !.status = "PENDING"]
                             ELSE [@ EXCEPT !.status = status, !.confirmed_at = t])
                       ELSE [@ EXCEPT !.status = status]]

\* DemoService.updateStatus -> db.demos.updateStatus
UpdateStatus(ds, id, status, t) ==
    [ds EXCEPT ![id] = IF status = "CONFIRMED"
                       THEN [@ EXCEPT !.status = status, !.confirmed_at = t]
                       ELSE [@ EXCEPT !.status = status]]

\* .update({ status }) of the SMS webhook (no confirmed_at)
SetStatus(ds, id, status) == [ds EXCEPT ![id] = [@ EXCEPT !.status = status]]

(***************************************************************************)
(* Reply classification.  A body is the sequence of its words after        *)
(* trim().toLowerCase(); ^(a|b)$ is membership of the whole body in a      *)
(* list, \b(a|b)\b is the occurrence of a phrase at word boundaries.       *)
(***************************************************************************)
ContainsPhrase(body, phrase) ==
    \E i \in 1..Len(body) :
        /\ i + Len(phrase) - 1 <= Len(body)
        /\ SubSeq(body, i, i + Len(phrase) - 1) = phrase

ContainsAny(body, phrases) == \E ph \in phrases : ContainsPhrase(body, ph)

YesExact ==
    { <<"yes">>, <<"yep">>, <<"yeah">>, <<"yup">>, <<"y">>, <<"confirm">>, <<"confirmed">>,
      <<"i'm", "in">>, <<"im", "in">>, <<"count", "me", "in">>, <<"see", "you">>,
      <<"sounds", "good">>, <<"perfect">>, <<"great">>, <<"ok">>, <<"okay">>, <<"good">> }
YesPhrases ==
    { <<"yes">>, <<"confirm">>, <<"i'll", "be", "there">>, <<"ill", "be", "there">>,
      <<"i'm", "coming">>, <<"im", "coming">>, <<"see", "you", "then">> }
RescheduleExact ==
    { <<"reschedule">>, <<"cancel">>, <<"can't">>, <<"cant">>, <<"cannot">>, <<"won't">>,
      <<"wont">>, <<"unable">>, <<"no">>, <<"nope">>, <<"n">>, <<"change">>, <<"move">>,
      <<"different", "time">>, <<"another", "time">> }
ReschedulePhrases ==
    { <<"reschedule">>, <<"can't", "make">>, <<"cant", "make">>, <<"won't", "work">>,
      <<"wont", "work">>, <<"need", "to", "cancel">>, <<"change", "the", "time">>,
      <<"different", "time">>, <<"move", "it">> }
SoonerExact ==
    { <<"sooner">>, <<"earlier">>, <<"asap">>, <<"now">>, <<"today">>, <<"tomorrow">>,
      <<"1">>, <<"2">> }

\* faulty variant: keyword matching only, the exact allow-lists are not consulted
parseIntentKeywordsOnly(body) ==
    IF ContainsAny(body, YesPhrases) THEN "YES"
    ELSE IF ContainsAny(body, ReschedulePhrases) THEN "RESCHEDULE"
    ELSE IF ContainsAny(body, {<<"option", "1">>, <<"first", "one">>, <<"morning">>}) THEN "1"
    ELSE IF ContainsAny(body, {<<"option", "2">>, <<"second", "one">>, <<"afternoon">>}) THEN "2"
    ELSE "UNKNOWN"

\* ReplyService.parseIntent
parseIntent(body) ==
    IF body \in YesExact THEN "YES"
    ELSE IF ContainsAny(body, YesPhrases) THEN "YES"
    ELSE IF body \in RescheduleExact THEN "RESCHEDULE"
    ELSE IF ContainsAny(body, ReschedulePhrases) THEN "RESCHEDULE"
    ELSE IF body \in SoonerExact
         THEN (IF body = <<"1">> THEN "1" ELSE IF body = <<"2">> THEN "2" ELSE "SOONER")
    ELSE IF ContainsAny(body, {<<"option", "1">>, <<"first", "one">>, <<"morning">>}) THEN "1"
    ELSE IF ContainsAny(body, {<<"option", "2">>, <<"second", "one">>, <<"afternoon">>}) THEN "2"
    ELSE "UNKNOWN"

\* parseIntent of the SMS webhook
parseIntentSms(body) ==
    IF body \in {<<"yes">>, <<"y">>, <<"yep">>, <<"yeah">>} THEN "YES"
    ELSE IF body \in {<<"stop">>, <<"unsubscribe">>} THEN "STOP"
    ELSE IF \/ body \in {<<"r">>, <<"a">>}
            \/ ContainsAny(body, {<<"reschedule">>, <<"different", "time">>,
                                  <<"another", "time">>})
         THEN "RESCHEDULE"
    ELSE IF body \in {<<"b">>, <<"close">>} THEN "CLOSE"
    ELSE IF \/ body \in {<<"no">>, <<"nope">>, <<"cancel">>}
            \/ ContainsPhrase(body, <<"can't", "make">>)
         THEN "CANCEL"
    ELSE "UNKNOWN"

(***************************************************************************)
(* Handlers (webhooks, sync).  A handler's first step does its reads and   *)
(* its first write; the writes it still has to make wait in todo, one      *)
(* awaited store call each.                                                *)
(***************************************************************************)
W(op, kind, val) == [op |-> op, kind |-> kind, val |-> val]

RECURSIVE Upserts(_)
Upserts(timeline) ==
    IF timeline = << >> THEN << >>
    ELSE << W("upsert", Head(timeline).message_type, Head(timeline).scheduled_for) >>
            \o Upserts(Tail(timeline))

IdleH == [pc |-> "idle", demo |-> 0, todo |-> << >>]

Run(h, id, todo) ==
    hs' = [hs EXCEPT ![h] = IF todo = << >> THEN IdleH
                            ELSE [pc |-> "write", demo |-> id, todo |-> todo]]

\* faulty variant: a demos table without UNIQUE(calendly_event_id)
NoEventConstraint(ds, e) == FALSE

\* demos.calendly_event_id UNIQUE: does the insert raise 23505?
DemoInsertConflicts(ds, e) == FindByCalendlyEventId(ds, e) # {}

\* POST /api/webhooks/calendly, invitee.created: createFromCalendly (insert, or
\* the existing row on 23505); scheduleSequence(demo) follows
BookingCreated(h, e) ==
    /\ hs[h].pc = "idle"
    /\ IF DemoInsertConflicts(demos, e)
       THEN /\ demos' = demos
            /\ \E id \in FindByCalendlyEventId(demos, e) :
                  Run(h, id, << W("schedule", "", 0) >>)
       ELSE /\ demos' = Append(demos, NewDemo(e, now))
            /\ Run(h, Len(demos) + 1, << W("schedule", "", 0) >>)
    /\ UNCHANGED <<now, jobs, messages, replies, sent, attempts, xs>>

\* GET /api/sync/calendly, one active event: upsert with ignoreDuplicates,
\* scheduleSequence only for a new row
SyncCreated(h, e) ==
    /\ hs[h].pc = "idle"
    /\ IF DemoInsertConflicts(demos, e)
       THEN UNCHANGED <<demos, hs>>
       ELSE /\ demos' = Append(demos, NewDemo(e, now))
            /\ Run(h, Len(demos) + 1, << W("schedule", "", 0) >>)
    /\ UNCHANGED <<now, jobs, messages, replies, sent, attempts, xs>>

\* invitee.canceled: DemoService.cancel(eventId), then the lookup and
\* cancelAllJobs of handleBookingCanceled
BookingCanceled(h, e) ==
    /\ hs[h].pc = "idle"
    /\ IF FindByCalendlyEventId(demos, e) = {}
       THEN demos' = demos
       ELSE \E id \in FindByCalendlyEventId(demos, e) :
                demos' = UpdateStatus(demos, id, "CANCELLED", now)
    /\ Run(h, 0, << W("cancel_jobs_by_event", e, 0) >>)
    /\ UNCHANGED <<now, jobs, messages, replies, sent, attempts, xs>>

\* sync, one canceled event: UPDATE demos SET status = 'CANCELLED'
\* WHERE calendly_event_id = e AND status IN ('PENDING', 'CONFIRMED')
SyncCanceled(h, e) ==
    /\ hs[h].pc = "idle"
    /\ LET updated == {i \in FindByCalendlyEventId(demos, e) : demos[i].status \in OpenStatuses}
       IN  IF updated = {}
           THEN UNCHANGED <<demos, hs>>
           ELSE /\ demos' = [i \in Ids(demos) |->
                               IF i \in updated THEN [demos[i] EXCEPT !.status = "CANCELLED"]
                               ELSE demos[i]]
                /\ \E id \in updated : Run(h, id, << W("cancel_jobs", "", 0) >>)
    /\ UNCHANGED <<now, jobs, messages, replies, sent, attempts, xs>>

\* faulty variant: a confirmation that also cancels the booking's jobs
IntentWritesConfirmCancels(intent) ==
    IF intent = "YES" THEN << W("status", "CONFIRMED", 1), W("cancel_jobs", "", 0) >>
    ELSE IF intent = "RESCHEDULE"
         THEN << W("status", "RESCHEDULED", 1), W("cancel_jobs", "handleReschedule", 0) >>
    ELSE << >>

\* faulty variant: an earlier-slot request handled as a reschedule
IntentWritesSoonerActs(intent) ==
    IF intent = "YES" THEN << W("status", "CONFIRMED", 1) >>
    ELSE IF intent \in {"RESCHEDULE", "SOONER", "1", "2"}
         THEN << W("status", "RESCHEDULED", 1), W("cancel_jobs", "handleReschedule", 0) >>
    ELSE << >>

\* the writes executeIntent makes for an intent
IntentWrites(intent) ==
    IF intent = "YES" THEN << W("status", "CONFIRMED", 1) >>
    ELSE IF intent = "RESCHEDULE"
         THEN << W("status", "RESCHEDULED", 1), W("cancel_jobs", "handleReschedule", 0) >>
    ELSE << >>

\* a row of replies; demo_id 0 is the null booking reference
ReplyRow(id, channel, from, intent, processed) ==
    [demo_id |-> id, channel |-> channel, from_address |-> from,
     intent |-> intent, processed |-> processed]

\* ReplyService.processReply: parse, find the demo, record the reply
processReply(h, from, body) ==
    /\ hs[h].pc = "idle"
    /\ LET intent == parseIntent(body)
           found == FindByEmail(demos, from)
       IN  IF found = {}
           THEN /\ replies' = Append(replies, ReplyRow(0, "EMAIL", from, intent, FALSE))
                /\ hs' = hs
           ELSE \E id \in found :
                /\ replies' = Append(replies, ReplyRow(id, "EMAIL", from, intent, TRUE))
                /\ Run(h, id, IntentWrites(intent))
    /\ UNCHANGED <<now, demos, jobs, messages, sent, attempts, xs>>

\* POST /api/webhooks/reply/email, one inbound email
EmailReply(h, from, body) ==
    /\ Len(replies) < MaxReplies
    /\ processReply(h, from, body)

\* the writes of the SMS webhook for an intent
SmsIntentWrites(intent) ==
    IF intent = "STOP" THEN << W("cancel_jobs", "", 0), W("optout", "", 0) >>
    ELSE IF intent \in {"CANCEL", "CLOSE"}
         THEN << W("cancel_jobs", "", 0), W("status", "CANCELLED", 0) >>
    ELSE IF intent = "YES" THEN << W("status", "CONFIRMED", 0) >>
    ELSE IF intent = "RESCHEDULE"
         THEN << W("status", "RESCHEDULED", 0), W("cancel_jobs", "", 0) >>
    ELSE << >>

\* POST /api/webhooks/reply/sms: find the demo by phone, parse, insert the
\* reply (saved: the insert returned no error; an error is only logged), then
\* act on the intent
SmsWebhook(h, from, body, saved) ==
    /\ hs[h].pc = "idle"
    /\ LET intent == parseIntentSms(body)
           found == FindByPhoneSms(demos, from)
       IN  IF found = {}
           THEN /\ replies' = IF saved
                               THEN Append(replies, ReplyRow(0, "SMS", from, intent, FALSE))
                               ELSE replies
                /\ hs' = hs
           ELSE \E id \in found :
                /\ replies' = IF saved
                               THEN Append(replies, ReplyRow(id, "SMS", from, intent, FALSE))
                               ELSE replies
                /\ Run(h, id, SmsIntentWrites(intent))
    /\ UNCHANGED <<now, demos, jobs, messages, sent, attempts, xs>>

\* one inbound SMS, recorded
SmsReply(h, from, body) ==
    /\ Len(replies) < MaxReplies
    /\ SmsWebhook(h, from, body, TRUE)

NextWrite(h) == Head(hs[h].todo)

Continue(h) == Run(h, hs[h].demo, Tail(hs[h].todo))

\* SchedulerService.scheduleSequence reads the clock and lays out its scheduleJob calls
ScheduleSequence(h) ==
    /\ hs[h].pc = "write"
    /\ NextWrite(h).op = "schedule"
    /\ Run(h, hs[h].demo, Upserts(scheduleSequence(demos[hs[h].demo], now)))
    /\ UNCHANGED <<now, demos, jobs, messages, replies, sent, attempts, xs>>

\* SchedulerService.scheduleJob
ScheduleJob(h) ==
    /\ hs[h].pc = "write"
    /\ NextWrite(h).op = "upsert"
    /\ jobs' = JobsUpsert(jobs, hs[h].demo, NextWrite(h).kind, NextWrite(h).val)
    /\ Continue(h)
    /\ UNCHANGED <<now, demos, messages, replies, sent, attempts, xs>>

\* the status update of a reply handler
WriteStatus(h) ==
    /\ hs[h].pc = "write"
    /\ NextWrite(h).op = "status"
    /\ demos' = IF NextWrite(h).val = 1
                THEN UpdateStatus(demos, hs[h].demo, NextWrite(h).kind, now)
                ELSE SetStatus(demos, hs[h].demo, NextWrite(h).kind)
    /\ Continue(h)
    /\ UNCHANGED <<now, jobs, messages, replies, sent, attempts, xs>>

\* STOP: .update({ phone: null, status: 'CANCELLED' })
OptOut(h) ==
    /\ hs[h].pc = "write"
    /\ NextWrite(h).op = "optout"
    /\ demos' = [demos EXCEPT ![hs[h].demo] =
                    [@ EXCEPT !.phone = NoPhone, !.status = "CANCELLED"]]
    /\ Continue(h)
    /\ UNCHANGED <<now, jobs, messages, replies, sent, attempts, xs>>

\* SchedulerService.cancelAllJobs
CancelAllJobs(h) ==
    /\ hs[h].pc = "write"
    /\ NextWrite(h).op = "cancel_jobs"
    /\ jobs' = JobsCancel(jobs, hs[h].demo)
    /\ Continue(h)
    /\ UNCHANGED <<now, demos, messages, replies, sent, attempts, xs>>

\* handleBookingCanceled: getByCalendlyEventId, then cancelAllJobs if found
CancelJobsOfEvent(h) ==
    /\ hs[h].pc = "write"
    /\ NextWrite(h).op = "cancel_jobs_by_event"
    /\ IF FindByCalendlyEventId(demos, NextWrite(h).kind) = {}
       THEN jobs' = jobs
       ELSE \E id \in FindByCalendlyEventId(demos, NextWrite(h).kind) :
                jobs' = JobsCancel(jobs, id)
    /\ Continue(h)
    /\ UNCHANGED <<now, demos, messages, replies, sent, attempts, xs>>

\* store calls whose error is thrown (the db.* wrappers and the services built
\* on them); the direct supabase calls of the SMS webhook and of the sync's
\* cancellation loop return their error and the code does not look at it
Throws(w) ==
    \/ w.op \in {"schedule", "upsert", "cancel_jobs_by_event"}
    \/ w.op = "status" /\ w.val = 1
    \/ w.op = "cancel_jobs" /\ w.kind = "handleReschedule"

\* the next store call of h fails: a thrown error ends the handler (500), an
\* unexamined one lets it go on to its next call
WriteFails(h) ==
    /\ hs[h].pc = "write"
    /\ NextWrite(h).op # "schedule"
    /\ IF Throws(NextWrite(h)) THEN hs' = [hs EXCEPT ![h] = IdleH] ELSE Continue(h)
    /\ UNCHANGED <<now, demos, jobs, messages, replies, sent, attempts, xs>>

\* inbound replies of the reply-handling specifications
EmailDelivered(h, from, body) ==
    /\ Len(replies) < MaxDeliveries
    /\ processReply(h, from, body)

SmsDelivered(h, from, body) ==
    /\ Len(replies) < MaxDeliveries
    /\ SmsWebhook(h, from, body, TRUE)

\* the insert into replies fails; the webhook logs the error and goes on
SmsDeliveredUnsaved(h, from, body) == SmsWebhook(h, from, body, FALSE)

(***************************************************************************)
(* Specification                                                           *)
(***************************************************************************)
Init ==
    /\ now = 0
    /\ demos = << >>
    /\ jobs = << >>
    /\ messages = << >>
    /\ replies = << >>
    /\ sent = [k \in Keys |-> 0]
    /\ attempts = [k \in Keys |-> 0]
    /\ xs = [p \in Executors |-> IdleX]
    /\ hs = [h \in Handlers |-> IdleH]

EmailBodies == { <<"yes">>, <<"reschedule">> }
SmsBodies == { <<"yes">>, <<"stop">>, <<"r">> }
FromEmails == {"a@x.io"}
FromPhones == {"+15550001"}

\* one sweep invocation, transport reliable
SweepStep(p) ==
    \/ SweepStart(p)
    \/ SweepSelect(p)
    \/ \E j \in Ids(jobs) : Claim(p, j)
    \/ Lookup(p)
    \/ CheckSent(p)
    \/ SendBegin(p)
    \/ TransportAccepts(p)
    \/ InsertMessage(p)
    \/ InsertFails(p)
    \/ Complete(p)
    \/ Fail(p)
    \/ SweepReturn(p)

\* the booking reaches the store through the sync
Intake(h) ==
    \/ \E e \in Events : SyncCreated(h, e)
    \/ ScheduleSequence(h)
    \/ ScheduleJob(h)

HandlerStep(h) ==
    \/ \E e \in Events : BookingCreated(h, e)
    \/ \E e \in Events : SyncCreated(h, e)
    \/ \E e \in Events : BookingCanceled(h, e)
    \/ \E e \in Events : SyncCanceled(h, e)
    \/ \E from \in FromEmails, body \in EmailBodies : EmailReply(h, from, body)
    \/ \E from \in FromPhones, body \in SmsBodies : SmsReply(h, from, body)
    \/ ScheduleSequence(h)
    \/ ScheduleJob(h)
    \/ WriteStatus(h)
    \/ OptOut(h)
    \/ CancelAllJobs(h)
    \/ CancelJobsOfEvent(h)

\* The engine: two sweep invocations racing over the jobs of a synced booking,
\* with audit-insert failures, crashes and stale-lease releases.
Next ==
    \/ \E p \in Executors : SweepStep(p)
    \/ \E p \in Executors : Crash(p)
    \/ Intake("h1")
    \/ Tick

Spec == Init /\ [][Next]_vars

\* Retries: one sweep invocation at a time against a transport that may fail.
NextRetry ==
    \/ SweepStep("x1")
    \/ TransportFails("x1")
    \/ Intake("h1")
    \/ Tick

SpecRetry == Init /\ [][NextRetry]_vars

\* the cron keeps invoking the sweep and an invocation runs to its end
FairRetry == SpecRetry /\ WF_vars(SweepStep("x1")) /\ WF_vars(Intake("h1")) /\ WF_vars(Tick)

\* Handlers: two concurrent webhook/sync handlers, no sweep.
NextHandlers ==
    \/ \E h \in Handlers : HandlerStep(h)
    \/ Tick

SpecHandlers == Init /\ [][NextHandlers]_vars

\* Cancellation: the sweeps against one handler, within one instant.
NextCancel ==
    \/ \E p \in Executors : SweepStep(p)
    \/ \E p \in Executors : Crash(p)
    \/ HandlerStep("h1")

SpecCancel == Init /\ [][NextCancel]_vars

\* Replies: senders with and without a booking, every intent of both channels
ReplyEmails == {"a@x.io", "z@x.io"}
ReplyEmailBodies == { <<"yes">>, <<"reschedule">>, <<"sooner">>, <<"1">>, <<"hello">> }
ReplySmsBodies == { <<"yes">>, <<"stop">>, <<"r">>, <<"hello">> }

ReplyStep(h) ==
    \/ \E from \in ReplyEmails, body \in ReplyEmailBodies : EmailDelivered(h, from, body)
    \/ \E from \in FromPhones, body \in ReplySmsBodies : SmsDelivered(h, from, body)
    \/ WriteStatus(h)
    \/ OptOut(h)
    \/ CancelAllJobs(h)

\* Reply handling: one reply webhook at a time on a synced booking, no faults.
NextReplies ==
    \/ Intake("h1")
    \/ ReplyStep("h1")
    \/ Tick

SpecReplies == Init /\ [][NextReplies]_vars

\* Reply handling with store faults: a failed insert into replies, a failed
\* status or job update.
NextReplyFaults ==
    \/ Intake("h1")
    \/ ReplyStep("h1")
    \/ \E from \in FromPhones, body \in ReplySmsBodies : SmsDeliveredUnsaved("h1", from, body)
    \/ WriteFails("h1")
    \/ Tick

SpecReplyFaults == Init /\ [][NextReplyFaults]_vars

\* Booking intake: the time left until the meeting when a delivery of the
\* booking-created event is handled (12.01 h = 12 h 36 s)
BookingLeads ==
    {5 * MINUTE, 40 * MINUTE, 10 * HOUR, 12 * HOUR, 12 * HOUR + 36000, 13 * HOUR,
     30 * HOUR, 36 * HOUR, 36 * HOUR + 36000, 37 * HOUR, 47 * HOUR, 49 * HOUR,
     72 * HOUR}

BookingInstants == {EventInfo(e).start_time - lead : e \in Events, lead \in BookingLeads}

InitBooking ==
    /\ now \in BookingInstants
    /\ demos = << >>
    /\ jobs = << >>
    /\ messages = << >>
    /\ replies = << >>
    /\ sent = [k \in Keys |-> 0]
    /\ attempts = [k \in Keys |-> 0]
    /\ xs = [p \in Executors |-> IdleX]
    /\ hs = [h \in Handlers |-> IdleH]

\* time passes until a later delivery
Later ==
    /\ \E t \in BookingInstants : t > now /\ now' = t
    /\ UNCHANGED <<demos, jobs, messages, replies, sent, attempts, xs, hs>>

\* the booking-created webhook, delivered once or again, at any lead time
NextBooking ==
    \/ \E e \in Events : BookingCreated("h1", e)
    \/ ScheduleSequence("h1")
    \/ ScheduleJob("h1")
    \/ Later

SpecBooking == InitBooking /\ [][NextBooking]_vars

\* Join link of a FUTURE booking: made 37 hours ahead, swept then, when the
\* join link falls due and a few minutes later; the lead may confirm by email
\* at any of these times
JoinLeads == {37 * HOUR, 10 * MINUTE, 4 * MINUTE}

JoinInstants == {EventInfo(e).start_time - lead : e \in Events, lead \in JoinLeads}

InitJoinLink ==
    /\ now = EventInfo("e1").start_time - 37 * HOUR
    /\ demos = << >>
    /\ jobs = << >>
    /\ messages = << >>
    /\ replies = << >>
    /\ sent = [k \in Keys |-> 0]
    /\ attempts = [k \in Keys |-> 0]
    /\ xs = [p \in Executors |-> IdleX]
    /\ hs = [h \in Handlers |-> IdleH]

\* time passes until the next sweep of interest
UntilDue ==
    /\ \E t \in JoinInstants : t > now /\ now' = t
    /\ UNCHANGED <<demos, jobs, messages, replies, sent, attempts, xs, hs>>

\* one sweep invocation, store and transport reliable
SweepRun(p) ==
    \/ SweepStart(p)
    \/ SweepSelect(p)
    \/ \E j \in Ids(jobs) : Claim(p, j)
    \/ Lookup(p)
    \/ CheckSent(p)
    \/ SendBegin(p)
    \/ TransportAccepts(p)
    \/ InsertMessage(p)
    \/ Complete(p)
    \/ SweepReturn(p)

NextJoinLink ==
    \/ SweepRun("x1")
    \/ Intake("h1")
    \/ \E from \in FromEmails : EmailReply("h1", from, <<"yes">>)
    \/ WriteStatus("h1")
    \/ UntilDue

SpecJoinLink == InitJoinLink /\ [][NextJoinLink]_vars

\* Outcomes of one job: one sweep invocation at a time, within one instant,
\* with every way processJobWithLock can end (booking lookup, transport and
\* audit-insert failures included), against every handler.
NextOutcomes ==
    \/ SweepStep("x1")
    \/ LookupNoDemo("x1")
    \/ TransportFails("x1")
    \/ HandlerStep("h1")

SpecOutcomes == Init /\ [][NextOutcomes]_vars

\* Execution over time: one sweep invocation at a time that may die holding a
\* claim, batches of more than one job, failed lookups and audit inserts,
\* against the handlers that cancel and reschedule.
NextSweep ==
    \/ SweepStep("x1")
    \/ LookupNoDemo("x1")
    \/ Crash("x1")
    \/ Intake("h1")
    \/ \E e \in Events : SyncCanceled("h1", e)
    \/ \E from \in FromEmails : EmailReply("h1", from, <<"reschedule">>)
    \/ WriteStatus("h1")
    \/ CancelAllJobs("h1")
    \/ Tick

SpecSweep == Init /\ [][NextSweep]_vars

\* faulty variant: a duplicate-key rejection rethrown like any transport error
DuplicateKeyRethrown(x) == [x EXCEPT !.pc = "fail"]

\* catch (error): statusCode 409 returns null to processJobWithLock
DuplicateKeyHandled(x) == [x EXCEPT !.pc = "complete", !.res = "sent"]

\* The email-only MessagingService on Resend: sendMessage is sendEmail for
\* every kind; up to the transport call
ResendSendBegin(p) ==
    /\ xs[p].pc = "send"
    /\ LET job == jobs[xs[p].job]
       IN  IF \/ MessageExists(messages, job.demo_id, job.message_type)
              \/ job.message_type \notin EmailTemplateKinds
           THEN SetX(p, [xs[p] EXCEPT !.pc = "complete", !.res = "sent"])
           ELSE SetX(p, [xs[p] EXCEPT !.pc = "transport"])
    /\ UNCHANGED <<now, demos, jobs, messages, replies, sent, attempts, hs>>

\* resend.emails.send is rejected with 409: the X-Idempotency-Key of the
\* (booking, kind) was already processed by an earlier accepted send
ResendRejectsDuplicate(p) ==
    /\ xs[p].pc = "transport"
    /\ LET job == jobs[xs[p].job]
       IN  sent[Key(job.demo_id, job.message_type)] >= 1
    /\ SetX(p, DuplicateKeyHandled(xs[p]))
    /\ UNCHANGED <<now, demos, jobs, messages, replies, sent, attempts, hs>>

ResendSweep(p) ==
    \/ SweepStart(p)
    \/ SweepSelect(p)
    \/ \E j \in Ids(jobs) : Claim(p, j)
    \/ Lookup(p)
    \/ CheckSent(p)
    \/ ResendSendBegin(p)
    \/ TransportAccepts(p)
    \/ ResendRejectsDuplicate(p)
    \/ InsertMessage(p)
    \/ InsertFails(p)
    \/ Complete(p)
    \/ Fail(p)
    \/ SweepReturn(p)

\* The sweep on the Resend transport: an accepted send whose audit insert
\* failed is attempted again by a later sweep with the same key.
NextResend ==
    \/ ResendSweep("x1")
    \/ Intake("h1")
    \/ Tick

SpecResend == Init /\ [][NextResend]_vars

\* Intent classification: one email reply with any allow-list token, a longer
\* phrasing, or a text no pattern matches, on a synced booking or none.
IntentBodies ==
    YesExact \cup RescheduleExact \cup SoonerExact \cup
    { <<"i'll", "be", "there">>, <<"yes", "but", "reschedule">>, <<"i", "can't", "make", "it">>,
      <<"need", "to", "cancel">>, <<"option", "1">>, <<"the", "second", "one">>,
      <<"hello">>, <<"maybe", "later">>, <<"no", "problem">>, <<"yesterday">> }

NextIntent ==
    \/ Intake("h1")
    \/ \E from \in ReplyEmails, body \in IntentBodies : EmailReply("h1", from, body)
    \/ WriteStatus("h1")
    \/ CancelAllJobs("h1")
    \/ Tick

SpecIntent == Init /\ [][NextIntent]_vars

\* The two cancel operations of SchedulerService on their own, applied to
\* every jobs table of two bookings that the engine can leave behind.
OpBookings == {1, 2}
OpKinds == <<"CONFIRM_INITIAL", "SMS_CONFIRM", "JOIN_LINK">>
OpKindSets == { {}, {"SMS_CONFIRM"}, {"CONFIRM_INITIAL", "JOIN_LINK"}, SMS_TYPES }

\* a job row before any cancel: absent, pending, claimed, executed, or
\* executed after it was cancelled
OpRowStates == {"absent", "pending", "claimed", "executed", "executed_cancelled"}

OpSlots == 1..(Cardinality(OpBookings) * Len(OpKinds))

OpRow(slot, st) ==
    [demo_id |-> ((slot - 1) \div Len(OpKinds)) + 1,
     message_type |-> OpKinds[((slot - 1) % Len(OpKinds)) + 1],
     scheduled_for |-> 0,
     executed |-> st \in {"executed", "executed_cancelled"},
     cancelled |-> st = "executed_cancelled",
     processing |-> st = "claimed",
     processing_started_at |-> IF st = "claimed" THEN 0 ELSE NULL]

RECURSIVE OpTable(_, _)
OpTable(f, slot) ==
    IF slot \notin OpSlots THEN << >>
    ELSE IF f[slot] = "absent" THEN OpTable(f, slot + 1)
    ELSE << OpRow(slot, f[slot]) >> \o OpTable(f, slot + 1)

InitJobOps ==
    /\ now = 0
    /\ demos = [d \in OpBookings |-> NewDemo("e1", 0)]
    /\ \E f \in [OpSlots -> OpRowStates] : jobs = OpTable(f, 1)
    /\ messages = << >>
    /\ replies = << >>
    /\ sent = [k \in Keys |-> 0]
    /\ attempts = [k \in Keys |-> 0]
    /\ xs = [p \in Executors |-> IdleX]
    /\ hs = [h \in Handlers |-> IdleH]

\* SchedulerService.cancelAllJobs(demoId)
CallCancelAllJobs(d) ==
    /\ jobs' = JobsCancel(jobs, d)
    /\ UNCHANGED <<now, demos, messages, replies, sent, attempts, xs, hs>>

\* SchedulerService.cancelJobTypes(demoId, messageTypes)
CallCancelJobTypes(d, kinds) ==
    /\ jobs' = JobsCancelTypes(jobs, d, kinds)
    /\ UNCHANGED <<now, demos, messages, replies, sent, attempts, xs, hs>>

NextJobOps ==
    \/ \E d \in OpBookings : CallCancelAllJobs(d)
    \/ \E d \in OpBookings, kinds \in OpKindSets : CallCancelJobTypes(d, kinds)

SpecJobOps == InitJobOps /\ [][NextJobOps]_vars

(***************************************************************************)
(* Claims                                                                  *)
(***************************************************************************)

\* C1: the transport accepts at most one send per (booking, kind), whatever
\* sweeps run and whatever fails (audit insert, crash, stale-lease release).
AtMostOneSendPerKind == \A key \in Keys : sent[key] <= 1

\* p's step out of pc = "claim" that takes job j from its batch
ClaimStepOf(p, j) ==
    /\ xs[p].pc = "claim"
    /\ j \in xs[p].batch
    /\ xs'[p].batch = xs[p].batch \ {j}

\* C2: a claim step on an unclaimed pending job wins it; a claim step on a job
\* another sweep already holds (or that is executed or cancelled) returns
\* 'already_claimed' and does no lookup, no transport call and no write.
ClaimIsExclusive ==
    [][\A p \in Executors : \A j \in Ids(jobs) :
         ClaimStepOf(p, j) =>
            IF ~jobs[j].executed /\ ~jobs[j].cancelled /\ ~jobs[j].processing
            THEN /\ jobs'[j].processing
                 /\ xs'[p].pc = "lookup"
                 /\ xs'[p].job = j
            ELSE /\ xs'[p].res = "already_claimed"
                 /\ xs'[p].pc \in {"claim", "done"}
                 /\ xs'[p].job = 0
                 /\ UNCHANGED <<demos, jobs, messages, replies, sent, attempts>>
      ]_vars

\* two sweeps raced for one job: p has just won it, q got 'already_claimed'
ClaimRaceHappened ==
    \E p \in Executors : \E q \in Executors \ {p} :
        /\ xs[p].pc = "lookup"
        /\ jobs[xs[p].job].processing
        /\ xs[q].res = "already_claimed"
        /\ xs[q].pc \in {"claim", "done"}

HeldBy(p, i) == InClaimedRegion(xs[p]) /\ xs[p].job = i

\* the lead has cancelled or rescheduled d and the handler has finished:
\* status terminal, every job of d cancelled
CancellationComplete(d) ==
    /\ d \in Ids(demos)
    /\ demos[d].status \in {"CANCELLED", "RESCHEDULED"}
    /\ \A i \in Ids(jobs) : jobs[i].demo_id = d => jobs[i].cancelled
    /\ \A h \in Handlers : hs[h].pc = "idle"

\* C3 (as stated): once a booking is cancelled (reschedule reply, booking-source
\* cancel), no Message row is created for it afterwards.
NoMessageAfterCancellation ==
    [][\A d \in DemoIds :
         CancellationComplete(d) =>
            \A i \in Ids(messages') : i \in Ids(messages) \/ messages'[i].demo_id # d
      ]_vars

ReadsTerminal(p) ==
    /\ xs[p].pc = "lookup"
    /\ demos[jobs[xs[p].job].demo_id].status \in {"CANCELLED", "RESCHEDULED"}

\* C3 (amended): an execution attempt whose re-validation reads the booking as
\* CANCELLED or RESCHEDULED makes no transport call and creates no Message
\* row: it goes straight to marking the job executed.
NoSendOnceSeenCancelled ==
    [][\A p \in Executors :
         /\ (ReadsTerminal(p) /\ xs'[p] # xs[p]) =>
                /\ xs'[p].pc \in {"complete", "idle"}
                /\ xs'[p].pc = "complete" => xs'[p].res = "skipped_terminal_state"
                /\ messages' = messages
                /\ sent' = sent
         /\ (xs[p].pc = "complete" /\ xs[p].res = "skipped_terminal_state"
                /\ xs'[p] # xs[p]) =>
                /\ xs'[p].pc \in {"claim", "done", "idle"}
                /\ xs'[p].pc # "idle" => jobs'[xs[p].job].executed
                /\ messages' = messages
                /\ sent' = sent
      ]_vars

\* an attempt has read a cancelled or rescheduled booking and is about to
\* mark its job executed
SkippedCancelledBooking ==
    \E p \in Executors :
        /\ xs[p].pc = "complete"
        /\ xs[p].res = "skipped_terminal_state"
        /\ demos[jobs[xs[p].job].demo_id].status \in {"CANCELLED", "RESCHEDULED"}

\* job i is due and neither executed nor cancelled
Unresolved(k) ==
    \E i \in Ids(jobs) :
        /\ jobs[i].message_type = k
        /\ jobs[i].scheduled_for <= now
        /\ ~jobs[i].executed
        /\ ~jobs[i].cancelled

\* C4: under fair repeated sweeps every due job is eventually executed or
\* cancelled, even when the transport fails on every attempt.
EveryJobResolves == \A k \in MessageType : Unresolved(k) ~> ~Unresolved(k)

\* C5: a job whose dispatch has failed 3 times (the retry ceiling) and whose
\* failed attempt has been put away is cancelled.
CancelledAtCeiling ==
    \A i \in Ids(jobs) :
        (/\ attempts[Key(jobs[i].demo_id, jobs[i].message_type)] >= 3
         /\ \A p \in Executors : ~HeldBy(p, i))
        => jobs[i].cancelled

\* C6: after the stale-release step of a sweep no job is claimed with a
\* timestamp older than the lease.
NoStaleAfterRelease ==
    [][\A p \in Executors :
         (xs[p].pc = "idle" /\ xs'[p].pc = "select") =>
            \A i \in Ids(jobs') : ~IsStale(jobs'[i], now)
      ]_vars

\* C7 (as stated): executed, cancelled and claimed exclude one another.
JobStatesExclusive ==
    \A i \in Ids(jobs) :
        /\ ~(jobs[i].executed /\ jobs[i].cancelled)
        /\ ~(jobs[i].processing /\ jobs[i].cancelled)
        /\ ~(jobs[i].processing /\ jobs[i].executed)

\* C7 (amended): a job row is never both claimed and executed, and it carries
\* a claim timestamp exactly while it is claimed; cancelled may hold together
\* with claimed or with executed.
NeverClaimedAndExecuted ==
    \A i \in Ids(jobs) :
        /\ ~(jobs[i].processing /\ jobs[i].executed)
        /\ jobs[i].processing <=> jobs[i].processing_started_at # NULL

\* a job cancelled while claimed has been marked executed, its lock cleared
ExecutedAfterCancel ==
    \E i \in Ids(jobs) :
        jobs[i].executed /\ jobs[i].cancelled /\ ~jobs[i].processing

\* C8: at most one job row per (booking id, kind), whatever scheduleSequence
\* calls have run (first delivery, redelivery, concurrent handlers).
OneJobPerKind ==
    \A i \in Ids(jobs) : \A j \in Ids(jobs) :
        (jobs[i].demo_id = jobs[j].demo_id /\ jobs[i].message_type = jobs[j].message_type)
        => i = j

\* two handlers are in scheduleSequence for one demo; one is ahead and the
\* other's next upsert meets the row the first one wrote
ConcurrentScheduling ==
    \E h \in Handlers : \E g \in Handlers \ {h} :
        /\ hs[h].pc = "write" /\ hs[g].pc = "write"
        /\ hs[h].demo = hs[g].demo
        /\ NextWrite(h).op = "upsert" /\ NextWrite(g).op = "upsert"
        /\ Len(hs[h].todo) < Len(hs[g].todo)
        /\ JobConflicts(jobs, hs[g].demo, NextWrite(g).kind) # {}

\* C9: at most one Message row per (booking, kind), also when two executors
\* both reach the insert.
OneMessagePerKind ==
    \A i \in Ids(messages) : \A j \in Ids(messages) :
        (messages[i].demo_id = messages[j].demo_id
            /\ messages[i].message_type = messages[j].message_type)
        => i = j

\* two executors hold one job after both sends were accepted: q's
\* db.messages.insert has returned and p is about to insert the same pair
TwoExecutorsReachInsert ==
    \E p \in Executors : \E q \in Executors \ {p} :
        /\ xs[p].pc = "insert"
        /\ xs[q].pc = "complete"
        /\ xs[q].res = "sent"
        /\ xs[q].job = xs[p].job
        /\ sent[Key(jobs[xs[p].job].demo_id, jobs[xs[p].job].message_type)] = 2
        /\ MessageExists(messages, jobs[xs[p].job].demo_id, jobs[xs[p].job].message_type)

\* C10: a booking in a terminal status (COMPLETED, CANCELLED, NO_SHOW,
\* RESCHEDULED) never changes status again.
TerminalStatusIsFinal ==
    [][\A d \in Ids(demos) :
         demos[d].status \in {"COMPLETED", "CANCELLED", "NO_SHOW", "RESCHEDULED"}
            => demos'[d].status = demos[d].status
      ]_vars

\* h's step that returns from handleReschedule: its cancelAllJobs call
RescheduleCompletes(h) ==
    /\ hs[h].pc = "write"
    /\ hs[h].todo = << W("cancel_jobs", "handleReschedule", 0) >>
    /\ hs'[h].pc = "idle"

\* C11: when handleReschedule completes for a booking, the booking's status is
\* RESCHEDULED, every job of the booking that was unexecuted is cancelled, and
\* every job that was executed keeps its executed and cancelled flags.
RescheduleCancelsPending ==
    [][\A h \in Handlers :
         RescheduleCompletes(h) =>
            /\ demos'[hs[h].demo].status = "RESCHEDULED"
            /\ Ids(jobs') = Ids(jobs)
            /\ \A i \in Ids(jobs) :
                  jobs[i].demo_id = hs[h].demo =>
                     IF jobs[i].executed
                     THEN /\ jobs'[i].executed
                          /\ jobs'[i].cancelled = jobs[i].cancelled
                     ELSE jobs'[i].cancelled
      ]_vars

\* an email reschedule has been processed for a booking with one job already
\* executed (and not cancelled) and one still pending, now cancelled
RescheduledWithExecutedJob ==
    /\ \A h \in Handlers : hs[h].pc = "idle"
    /\ replies # << >>
    /\ replies[Len(replies)].channel = "EMAIL"
    /\ replies[Len(replies)].intent = "RESCHEDULE"
    /\ LET d == replies[Len(replies)].demo_id
       IN  /\ d \in Ids(demos)
           /\ demos[d].status = "RESCHEDULED"
           /\ \E i \in Ids(jobs) :
                 jobs[i].demo_id = d /\ jobs[i].executed /\ ~jobs[i].cancelled
           /\ \E i \in Ids(jobs) :
                 jobs[i].demo_id = d /\ ~jobs[i].executed /\ jobs[i].cancelled

\* the step that inserts a row into replies; the row is LastReply'
ReplyRecorded == Len(replies') = Len(replies) + 1

LastReply == replies[Len(replies)]

\* h's updateStatus(CONFIRMED) call of handleConfirmation
ConfirmationStep(h) ==
    /\ hs[h].pc = "write"
    /\ NextWrite(h) = W("status", "CONFIRMED", 1)
    /\ hs'[h] # hs[h]

RepeatedConfirmationIsNoOp ==
    [][\A h \in Handlers :
         /\ (/\ hs[h].pc = "idle"
             /\ hs'[h].pc = "write"
             /\ Head(hs'[h].todo).op = "status"
             /\ Head(hs'[h].todo).kind = "CONFIRMED"
             /\ demos[hs'[h].demo].status = "CONFIRMED") =>
                /\ ReplyRecorded
                /\ LastReply'.demo_id = hs'[h].demo
                /\ LastReply'.intent = "YES"
                /\ \A i \in Ids(replies) : replies'[i] = replies[i]
         /\ (/\ hs[h].pc = "write"
             /\ NextWrite(h).op = "status"
             /\ NextWrite(h).kind = "CONFIRMED"
             /\ demos[hs[h].demo].status = "CONFIRMED"
             /\ hs'[h] # hs[h]) =>
                /\ demos'[hs[h].demo].status = "CONFIRMED"
                /\ hs'[h] = IdleH
      ]_vars

\* the same affirmative reply has been processed twice: two Reply rows, the
\* booking CONFIRMED
ConfirmedTwice ==
    /\ \A h \in Handlers : hs[h].pc = "idle"
    /\ Len(replies) = 2
    /\ replies[1] = replies[2]
    /\ replies[1].intent = "YES"
    /\ replies[1].demo_id \in Ids(demos)
    /\ demos[replies[1].demo_id].status = "CONFIRMED"

\* C14: confirmed-at is written exactly once: every transition into CONFIRMED
\* leaves it non-null, and a booking that stays CONFIRMED keeps its value.
ConfirmedAtWrittenOnce ==
    [][\A d \in Ids(demos) :
         /\ (demos[d].status # "CONFIRMED" /\ demos'[d].status = "CONFIRMED")
                => demos'[d].confirmed_at # NULL
         /\ (demos[d].status = "CONFIRMED" /\ demos'[d].status = "CONFIRMED")
                => demos'[d].confirmed_at = demos[d].confirmed_at
      ]_vars

\* C15: a reply classified as unknown, earlier-slot or option selection only
\* adds its Reply row: no booking and no job changes, and the handler has
\* nothing left to write.
PassiveIntentsOnlyRecord ==
    [][(ReplyRecorded /\ LastReply'.intent \in {"UNKNOWN", "SOONER", "1", "2"}) =>
            /\ demos' = demos
            /\ jobs' = jobs
            /\ hs' = hs
            /\ \A i \in Ids(replies) : replies'[i] = replies[i]
      ]_vars

\* an earlier-slot request and an unknown text from the lead of an open
\* booking have been recorded; the booking is still PENDING with its jobs
SoonerAndUnknownRecorded ==
    /\ \A h \in Handlers : hs[h].pc = "idle"
    /\ Len(replies) = 2
    /\ {replies[1].intent, replies[2].intent} = {"SOONER", "UNKNOWN"}
    /\ replies[1].demo_id \in Ids(demos)
    /\ replies[2].demo_id = replies[1].demo_id
    /\ demos[replies[1].demo_id].status = "PENDING"
    /\ \E i \in Ids(jobs) : ~jobs[i].cancelled

\* an open booking has r's sender as its contact address
HasOpenBooking(r) ==
    \E d \in Ids(demos) :
        /\ demos[d].status \in OpenStatuses
        /\ IF r.channel = "EMAIL" THEN demos[d].email = r.from_address
           ELSE demos[d].phone = r.from_address

\* C16: a reply whose sender matches no open booking is recorded with a null
\* booking reference and intent "unmatched", and changes no booking or job.
UnmatchedReplyRecorded ==
    [][(ReplyRecorded /\ ~HasOpenBooking(LastReply')) =>
            /\ LastReply'.demo_id = 0
            /\ LastReply'.intent = "unmatched"
            /\ demos' = demos
            /\ jobs' = jobs
            /\ hs' = hs
      ]_vars

\* C17: a handler starts mutating a booking or its jobs for a reply only in
\* the step that records the reply's row, and no step removes or alters a
\* recorded row.
RecordedBeforeMutation ==
    [][/\ \A h \in Handlers :
            (/\ hs[h].pc = "idle"
             /\ hs'[h].pc = "write"
             /\ Head(hs'[h].todo).op \in {"status", "cancel_jobs", "optout"}) =>
                /\ ReplyRecorded
                /\ LastReply'.demo_id = hs'[h].demo
       /\ Len(replies') >= Len(replies)
       /\ \A i \in Ids(replies) : replies'[i] = replies[i]
      ]_vars

\* C18: however often and by whichever path a booking-created event is
\* delivered, demos holds one row per event id, and a delivery that meets the
\* existing row hands that row to scheduleSequence and changes no demo.
OneBookingPerEvent ==
    [][/\ \A e \in Events : Cardinality(FindByCalendlyEventId(demos', e)) <= 1
       /\ \A h \in Handlers :
            (/\ hs[h].pc = "idle"
             /\ hs'[h].pc = "write"
             /\ Head(hs'[h].todo).op = "schedule"
             /\ hs'[h].demo \in Ids(demos)) =>
                /\ demos' = demos
                /\ demos[hs'[h].demo].calendly_event_id \in Events
      ]_vars

\* two deliveries of one event are both about to schedule the same, single row
TwoDeliveriesOneRow ==
    /\ Len(demos) = 1
    /\ \A h \in Handlers :
         /\ hs[h].pc = "write"
         /\ NextWrite(h).op = "schedule"
         /\ hs[h].demo = 1

\* the classification by the exact time remaining, bounds inclusive
ExactClass(lead) ==
    IF lead <= 12 * HOUR THEN "SAME_DAY"
    ELSE IF lead <= 36 * HOUR THEN "NEXT_DAY"
    ELSE "FUTURE"

\* C19: a new booking is classified by the exact time remaining against 12 h
\* and 36 h, bounds inclusive: 12.0 h is SAME_DAY, 12.01 h NEXT_DAY, 36.0 h
\* NEXT_DAY, 36.01 h FUTURE.
ClassifiedByExactTime ==
    [][\A i \in Ids(demos') :
         i \notin Ids(demos) =>
            demos'[i].demo_type = ExactClass(demos'[i].scheduled_at - now)
      ]_vars

\* h's scheduleSequence call lays out its scheduleJob calls
SequenceLaidOut(h) ==
    /\ hs[h].pc = "write"
    /\ NextWrite(h).op = "schedule"
    /\ hs'[h] # hs[h]

\* C20: scheduleSequence writes no job targeted before the now read at the
\* start of the call: a step of the booking's sequence whose computed time is
\* before that now is skipped, every other step is written with its time.
SkipsPastSteps ==
    [][\A h \in Handlers :
         /\ SequenceLaidOut(h) =>
               LET demo == demos[hs[h].demo]
                   todo == hs'[h].todo
                   steps == SEQUENCES[demo.demo_type]
               IN  /\ \A k \in 1..Len(todo) :
                         todo[k].op = "upsert" /\ todo[k].val >= now
                   /\ \A n \in 1..Len(steps) :
                         IF StepTime(demo, steps[n], now) < now
                         THEN \A k \in 1..Len(todo) : todo[k].kind # steps[n].messageType
                         ELSE \E k \in 1..Len(todo) :
                                 /\ todo[k].kind = steps[n].messageType
                                 /\ todo[k].val = StepTime(demo, steps[n], now)
         /\ (hs[h].pc = "write" /\ NextWrite(h).op = "upsert" /\ hs'[h] # hs[h]) =>
               \E i \in Ids(jobs') :
                  /\ jobs'[i].demo_id = hs[h].demo
                  /\ jobs'[i].message_type = NextWrite(h).kind
                  /\ jobs'[i].scheduled_for = NextWrite(h).val
      ]_vars

\* a call for a NEXT_DAY booking whose evening-before time and 4-hour reminder
\* are past has skipped both and kept the join link and the steps after it
EveningBeforeSkipped ==
    \E h \in Handlers :
        /\ hs[h].pc = "write"
        /\ Head(hs[h].todo) = W("upsert", "CONFIRM_INITIAL", now)
        /\ demos[hs[h].demo].demo_type = "NEXT_DAY"
        /\ calculateEveningBefore(demos[hs[h].demo]) < now
        /\ \A k \in 1..Len(hs[h].todo) :
              hs[h].todo[k].kind \notin {"EVENING_BEFORE", "CONFIRM_REMINDER"}
        /\ \E k \in 1..Len(hs[h].todo) : hs[h].todo[k].kind = "JOIN_LINK"
        /\ \E k \in 1..Len(hs[h].todo) : hs[h].todo[k].kind = "POST_NO_SHOW"

HoldsJoinLink(p) ==
    /\ xs[p].job \in Ids(jobs)
    /\ jobs[xs[p].job].message_type = "JOIN_LINK"
    /\ demos[jobs[xs[p].job].demo_id].demo_type = "FUTURE"

\* C22: the JOIN_LINK job of a FUTURE booking passes the executor's
\* re-validation only if the status it reads is CONFIRMED; if the booking is
\* open but not confirmed the executor goes straight to marking the job
\* executed, with no transport call; and once that job is executed with nothing
\* sent, no JOIN_LINK is sent for the booking later.
JoinLinkOnlyIfConfirmed ==
    [][/\ \A p \in Executors :
            (xs[p].pc = "lookup" /\ HoldsJoinLink(p) /\ xs'[p] # xs[p]) =>
               LET status == demos[jobs[xs[p].job].demo_id].status
               IN  /\ xs'[p].pc = "check" => status = "CONFIRMED"
                   /\ status = "PENDING" =>
                         /\ xs'[p].pc = "complete"
                         /\ xs'[p].res = "skipped_not_confirmed"
                   /\ sent' = sent
       /\ \A p \in Executors :
            (/\ xs[p].pc = "complete"
             /\ xs[p].res = "skipped_not_confirmed"
             /\ xs'[p] # xs[p]) =>
                /\ jobs'[xs[p].job].executed
                /\ sent' = sent
                /\ messages' = messages
       /\ \A i \in Ids(jobs) :
            (/\ jobs[i].message_type = "JOIN_LINK"
             /\ demos[jobs[i].demo_id].demo_type = "FUTURE"
             /\ jobs[i].executed
             /\ sent[Key(jobs[i].demo_id, "JOIN_LINK")] = 0) =>
                sent'[Key(jobs[i].demo_id, "JOIN_LINK")] = 0
      ]_vars

\* the join link of a FUTURE booking was skipped while the booking was
\* PENDING; the lead has confirmed since and a later sweep has run: nothing
\* was sent for the join link
JoinLinkSkippedThenConfirmed ==
    /\ now = EventInfo("e1").start_time - 4 * MINUTE
    /\ xs["x1"].pc = "done"
    /\ Len(demos) = 1
    /\ demos[1].demo_type = "FUTURE"
    /\ demos[1].status = "CONFIRMED"
    /\ \E i \in Ids(jobs) :
          /\ jobs[i].message_type = "JOIN_LINK"
          /\ jobs[i].executed
          /\ ~jobs[i].processing
    /\ sent[Key(1, "JOIN_LINK")] = 0
    /\ sent[Key(1, "CONFIRM_INITIAL")] = 1

\* p's step that returns from processJobWithLock to the loop of GET
ExitsClaimedRegion(p) ==
    /\ InClaimedRegion(xs[p])
    /\ xs'[p].pc \in {"claim", "done"}

\* C23: every way processJobWithLock ends after a successful claim (sent,
\* skipped, already sent, a failed booking lookup, a thrown transport or
\* audit-insert error) leaves the job with processing = false and no claim
\* timestamp; a thrown error leaves the executed flag as it was; and no job
\* stays claimed without an invocation working on it.
ClaimReleasedOnEveryExit ==
    [][/\ \A p \in Executors :
            ExitsClaimedRegion(p) =>
               /\ ~jobs'[xs[p].job].processing
               /\ jobs'[xs[p].job].processing_started_at = NULL
               /\ xs'[p].res \in {"sent", "skipped_no_demo", "skipped_terminal_state",
                                  "skipped_not_confirmed", "already_sent", "error"}
               /\ xs'[p].res = "error" =>
                     jobs'[xs[p].job].executed = jobs[xs[p].job].executed
               /\ xs'[p].res # "error" => jobs'[xs[p].job].executed
       /\ \A i \in Ids(jobs') :
            jobs'[i].processing =>
               \E p \in Executors : InClaimedRegion(xs'[p]) /\ xs'[p].job = i
      ]_vars

\* the sweep has just recorded 'error' for a job whose transport call has
\* thrown once and whose audit insert has failed once: the job is unclaimed
\* and not executed
ErrorsLeftJobUnclaimed ==
    \E i \in Ids(jobs) :
        /\ xs["x1"].pc = "done"
        /\ xs["x1"].res = "error"
        /\ attempts[Key(jobs[i].demo_id, jobs[i].message_type)] >= 1
        /\ sent[Key(jobs[i].demo_id, jobs[i].message_type)] >= 1
        /\ ~MessageExists(messages, jobs[i].demo_id, jobs[i].message_type)
        /\ ~jobs[i].processing
        /\ ~jobs[i].executed

\* C25: when the re-validation of a claimed job finds no booking, or reads
\* its status as CANCELLED or RESCHEDULED, the executor goes to markCompleted
\* with a skipped result, and that marks the job executed and unclaimed with no
\* transport call, no Message row and no 'error' result.
SkipsMissingOrCancelledBooking ==
    [][\A p \in Executors :
         /\ (/\ xs[p].pc = "lookup"
             /\ xs'[p] # xs[p]
             /\ \/ xs'[p].res = "skipped_no_demo"
                \/ demos[jobs[xs[p].job].demo_id].status \in {"CANCELLED", "RESCHEDULED"}) =>
                /\ xs'[p].pc = "complete"
                /\ xs'[p].res \in {"skipped_no_demo", "skipped_terminal_state"}
                /\ UNCHANGED <<jobs, messages, sent, attempts>>
         /\ (/\ xs[p].pc = "complete"
             /\ xs[p].res \in {"skipped_no_demo", "skipped_terminal_state"}
             /\ xs'[p] # xs[p]) =>
                /\ jobs'[xs[p].job].executed
                /\ ~jobs'[xs[p].job].processing
                /\ xs'[p].res = xs[p].res
                /\ xs'[p].pc \in {"claim", "done"}
                /\ UNCHANGED <<messages, sent, attempts>>
      ]_vars

\* a sweep has ended with a job of a cancelled or rescheduled booking marked
\* executed and nothing sent or recorded for it
CancelledBookingJobExecutedUnsent ==
    \E i \in Ids(jobs) :
        /\ xs["x1"].pc = "done"
        /\ xs["x1"].res = "skipped_terminal_state"
        /\ demos[jobs[i].demo_id].status \in {"CANCELLED", "RESCHEDULED"}
        /\ jobs[i].executed
        /\ ~jobs[i].processing
        /\ sent[Key(jobs[i].demo_id, jobs[i].message_type)] = 0
        /\ attempts[Key(jobs[i].demo_id, jobs[i].message_type)] = 0
        /\ messages = << >>

\* C24: when the cancelled flag of a claimed job is set before its executor's
\* re-validation, the re-validation observes the flag: the executor goes to
\* markCompleted without a transport call, also when the booking's status has
\* not changed.
RecheckObservesCancelFlag ==
    [][\A p \in Executors :
         (/\ xs[p].pc = "lookup"
          /\ jobs[xs[p].job].cancelled
          /\ xs'[p] # xs[p]) =>
             /\ xs'[p].pc = "complete"
             /\ xs'[p].res \in {"skipped_no_demo", "skipped_terminal_state",
                                "skipped_not_confirmed"}
      ]_vars

\* a Message row for p's job exists
HasMessageRow(ms, p) ==
    \E i \in Ids(ms) :
        /\ ms[i].demo_id = jobs[xs[p].job].demo_id
        /\ ms[i].message_type = jobs[xs[p].job].message_type

\* C26: when a Message row exists for a claimed job's (booking id, kind) at
\* the duplicate check (Step 5, and again at the top of sendEmail/sendSms), the
\* executor goes to markCompleted without a transport call, and that marks the
\* job executed: a job released after its send was recorded is not sent again.
\* (A step to pc = "idle" is the death of the invocation, not a step of its code.)
AlreadySentIsNotResent ==
    [][\A p \in Executors :
         /\ (xs[p].pc = "check" /\ HasMessageRow(messages, p) /\ xs'[p].pc # xs[p].pc
                /\ xs'[p].pc # "idle") =>
                /\ xs'[p].pc = "complete"
                /\ xs'[p].res = "already_sent"
                /\ UNCHANGED <<sent, messages, jobs>>
         /\ (xs[p].pc = "send" /\ HasMessageRow(messages, p) /\ xs'[p].pc # xs[p].pc
                /\ xs'[p].pc # "idle") =>
                /\ xs'[p].pc = "complete"
                /\ UNCHANGED <<sent, messages, jobs>>
         /\ (xs[p].pc = "complete" /\ xs[p].res = "already_sent" /\ xs'[p].pc # xs[p].pc
                /\ xs'[p].pc # "idle") =>
                /\ jobs'[xs[p].job].executed
                /\ ~jobs'[xs[p].job].processing
                /\ UNCHANGED <<sent, messages>>
      ]_vars

\* an invocation died after its send was recorded; a later sweep took the
\* released job, found the Message row and marked the job executed: one send
ReleasedJobNotResent ==
    \E i \in Ids(jobs) :
        /\ xs["x1"].pc \in {"claim", "done"}
        /\ xs["x1"].res = "already_sent"
        /\ jobs[i].executed
        /\ MessageExists(messages, jobs[i].demo_id, jobs[i].message_type)
        /\ sent[Key(jobs[i].demo_id, jobs[i].message_type)] = 1
        /\ now > 0

\* C27: an executor whose transport call was accepted marks the job executed
\* only with a Message row for the job's (booking id, kind) in place: the
\* step out of the audit insert goes to markCompleted only if the row exists,
\* and when the insert fails otherwise the catch block leaves the job
\* unexecuted.
ExecutedOnlyWithAuditRow ==
    [][\A p \in Executors :
         /\ (xs[p].pc = "insert" /\ xs'[p].pc = "complete") =>
                HasMessageRow(messages', p)
         /\ (xs[p].pc = "insert" /\ xs'[p] # xs[p] /\ ~HasMessageRow(messages', p)) =>
                /\ xs'[p].pc \in {"fail", "idle"}
                /\ jobs' = jobs
         /\ (xs[p].pc = "fail" /\ xs'[p] # xs[p]) =>
                /\ jobs'[xs[p].job].executed = jobs[xs[p].job].executed
                /\ messages' = messages
         /\ (/\ xs[p].pc = "complete"
             /\ xs[p].res = "sent"
             /\ xs[p].phone # NoPhone
             /\ sent[Key(jobs[xs[p].job].demo_id, jobs[xs[p].job].message_type)] >= 1
             /\ xs'[p] # xs[p]
             /\ xs'[p].pc # "idle") =>
                /\ jobs'[xs[p].job].executed
                /\ HasMessageRow(messages, p)
      ]_vars

\* the audit insert failed after an accepted send: 'error' is recorded, the
\* job is unclaimed and unexecuted and has no Message row
SentButUnrecorded ==
    \E i \in Ids(jobs) :
        /\ xs["x1"].pc \in {"claim", "done"}
        /\ xs["x1"].res = "error"
        /\ sent[Key(jobs[i].demo_id, jobs[i].message_type)] = 1
        /\ ~MessageExists(messages, jobs[i].demo_id, jobs[i].message_type)
        /\ ~jobs[i].executed
        /\ ~jobs[i].processing

\* C28: within one sweep, a job's result (an error included) sends the loop
\* on to the next selected job: after 'error' the loop is at the claim of the
\* next job while any is left, a job leaves the batch only through its own
\* claim step, which either claims it or records 'already_claimed', and the
\* sweep returns only with the batch empty.
ErrorDoesNotEndBatch ==
    [][\A p \in Executors :
         /\ (xs[p].pc \in {"fail", "complete"} /\ xs'[p] # xs[p] /\ xs'[p].pc # "idle") =>
                /\ xs'[p].pc = IF xs[p].batch = {} THEN "done" ELSE "claim"
                /\ xs'[p].batch = xs[p].batch
                /\ xs'[p].res = IF xs[p].pc = "fail" THEN "error" ELSE xs[p].res
                /\ xs'[p].res # "none"
         /\ (xs[p].pc \notin {"idle", "select", "done"} /\ xs'[p].pc # "idle") =>
                /\ xs'[p].batch \subseteq xs[p].batch
                /\ xs'[p].batch # xs[p].batch =>
                      \E j \in xs[p].batch :
                         /\ ClaimStepOf(p, j)
                         /\ \/ xs'[p].pc = "lookup" /\ xs'[p].job = j
                            \/ xs'[p].res = "already_claimed"
         /\ (xs[p].pc # "done" /\ xs'[p].pc = "done") => xs'[p].batch = {}
      ]_vars

\* in a batch of two, the first job has ended in 'error' (its audit insert
\* failed after the send) and the loop is at the claim of the second
NextJobAfterError ==
    /\ xs["x1"].pc = "claim"
    /\ xs["x1"].res = "error"
    /\ Cardinality(xs["x1"].batch) = 1
    /\ \E i \in Ids(jobs) :
          /\ i \notin xs["x1"].batch
          /\ sent[Key(jobs[i].demo_id, jobs[i].message_type)] >= 1
          /\ ~jobs[i].executed
          /\ ~jobs[i].processing

\* C29: within one sweep batch jobs are claimed in ascending target-time
\* order (the job a claim step takes has the earliest scheduled_for of the jobs
\* still in the batch), and the selection leaves no due job out in favour of
\* one with a later target time.
ProcessedInTargetTimeOrder ==
    [][\A p \in Executors :
         /\ \A j \in Ids(jobs) :
               ClaimStepOf(p, j) =>
                  \A k \in xs[p].batch : jobs[j].scheduled_for <= jobs[k].scheduled_for
         /\ (xs[p].pc = "select" /\ xs'[p].pc \in {"claim", "done"}) =>
               \A j \in xs'[p].batch : \A k \in DueJobs(jobs, xs[p].now) \ xs'[p].batch :
                  jobs[j].scheduled_for <= jobs[k].scheduled_for
      ]_vars

\* C30: a claim step succeeds only on a job that is unexecuted, uncancelled
\* and unclaimed at that instant; on a selected job that has been cancelled or
\* executed since the selection it changes no row and records
\* 'already_claimed', and the sweep does not come back to the job: a job
\* enters an invocation's claimed region only through a successful claim and
\* the batch only shrinks.
ClaimsOnlyPendingJobs ==
    [][\A p \in Executors :
         /\ \A j \in Ids(jobs) :
               ClaimStepOf(p, j) =>
                  /\ xs'[p].pc = "lookup" =>
                        /\ ~jobs[j].executed /\ ~jobs[j].cancelled /\ ~jobs[j].processing
                        /\ xs'[p].job = j
                  /\ (jobs[j].cancelled \/ jobs[j].executed) =>
                        /\ xs'[p].res = "already_claimed"
                        /\ xs'[p].job = 0
                        /\ j \notin xs'[p].batch
                        /\ UNCHANGED <<jobs, messages, sent>>
         /\ (InClaimedRegion(xs'[p]) /\ xs'[p].job # xs[p].job) =>
               /\ ClaimStepOf(p, xs'[p].job)
               /\ ~jobs[xs'[p].job].cancelled
               /\ ~jobs[xs'[p].job].executed
         /\ (xs[p].pc \notin {"idle", "select", "done"}) =>
               xs'[p].batch \subseteq xs[p].batch
      ]_vars

\* a job selected by a sweep was cancelled before the sweep's claim step: the
\* sweep recorded 'already_claimed', nobody holds the job, nothing was sent
CancelledBeforeClaim ==
    \E p \in Executors : \E i \in Ids(jobs) :
        /\ xs[p].pc = "done"
        /\ xs[p].res = "already_claimed"
        /\ \A q \in Executors \ {p} : xs[q] = IdleX
        /\ jobs[i].cancelled
        /\ ~jobs[i].executed
        /\ ~jobs[i].processing
        /\ jobs[i].scheduled_for <= now
        /\ sent[Key(jobs[i].demo_id, jobs[i].message_type)] = 0

\* what a cancel of booking d restricted to kinds may change: exactly the
\* cancelled flag of d's unexecuted jobs of those kinds
CancelFrame(d, kinds) ==
    /\ Len(jobs') = Len(jobs)
    /\ \A i \in Ids(jobs) :
        IF jobs[i].demo_id = d /\ ~jobs[i].executed /\ jobs[i].message_type \in kinds
        THEN jobs'[i] = [jobs[i] EXCEPT !.cancelled = TRUE]
        ELSE jobs'[i] = jobs[i]

\* C31: cancelAllJobs(booking) and cancelJobTypes(booking, kinds) set cancelled
\* on the unexecuted jobs of that booking (of those kinds) and change no other
\* row and no other field; applied once more to the table they leave, they
\* change nothing.
CancelsOnlyMatchingJobs ==
    [][\A d \in OpBookings :
        /\ CallCancelAllJobs(d) =>
              /\ CancelFrame(d, MessageType)
              /\ JobsCancel(jobs', d) = jobs'
        /\ \A kinds \in OpKindSets :
              CallCancelJobTypes(d, kinds) =>
                  /\ CancelFrame(d, kinds)
                  /\ JobsCancelTypes(jobs', d, kinds) = jobs']_vars

\* witness: booking 1's SMS_CONFIRM job was cancelled while its executed
\* CONFIRM_INITIAL job, its pending JOIN_LINK job and booking 2's pending
\* SMS_CONFIRM job were left as they were
CancelledOneKindOfOneBooking ==
    \E a, b, c, e \in Ids(jobs) :
        /\ jobs[a].demo_id = 1 /\ jobs[a].message_type = "SMS_CONFIRM"
        /\ jobs[a].cancelled /\ ~jobs[a].executed
        /\ jobs[b].demo_id = 1 /\ jobs[b].message_type = "CONFIRM_INITIAL"
        /\ jobs[b].executed /\ ~jobs[b].cancelled
        /\ jobs[c].demo_id = 1 /\ jobs[c].message_type = "JOIN_LINK"
        /\ ~jobs[c].cancelled /\ ~jobs[c].executed
        /\ jobs[e].demo_id = 2 /\ jobs[e].message_type = "SMS_CONFIRM"
        /\ ~jobs[e].cancelled /\ ~jobs[e].executed

\* C32: a scheduleJob call for a (booking, kind) that already has a row only
\* replaces the row's target time: every row that was executed stays executed
\* and every row that was cancelled stays cancelled.
RescheduleKeepsTerminalFlags ==
    [][\A h \in Handlers :
         (/\ hs[h].pc = "write"
          /\ NextWrite(h).op = "upsert"
          /\ hs'[h] # hs[h]) =>
             \A i \in Ids(jobs) :
                /\ jobs[i].executed => jobs'[i].executed
                /\ jobs[i].cancelled => jobs'[i].cancelled
                /\ jobs'[i] = [jobs[i] EXCEPT !.scheduled_for = jobs'[i].scheduled_for]
      ]_vars

\* the retry counter a job row stores (a row without the column stores none)
RetryCount(j) == IF "retry_count" \in DOMAIN j THEN j.retry_count ELSE 0

\* C33: once the catch block has released a job whose transport call failed,
\* the job is pending and unclaimed again and its retry counter equals the
\* number of failed transport calls made for it.
FailureCountedAndReleased ==
    \A i \in Ids(jobs) :
        (\A p \in Executors : ~(xs[p].pc = "fail" /\ xs[p].job = i)) =>
            /\ RetryCount(jobs[i]) = attempts[Key(jobs[i].demo_id, jobs[i].message_type)]
            /\ (\A p \in Executors : ~(InClaimedRegion(xs[p]) /\ xs[p].job = i)) =>
                    ~jobs[i].processing

\* C34: when the transport answers a send with 409 (the idempotency key was
\* already processed: nothing is accepted and nothing thrown on), the executor
\* goes on to markCompleted with the result 'sent' and writes nothing else; its
\* markCompleted leaves the job executed and unclaimed, so no later sweep
\* selects it.
DuplicateKeyIsSuccessfulNoOp ==
    [][\A p \in Executors :
        /\ (/\ xs[p].pc = "transport"
            /\ xs'[p] # xs[p]
            /\ sent' = sent) =>
               /\ xs'[p].pc = "complete"
               /\ xs'[p].res = "sent"
               /\ xs'[p].job = xs[p].job
               /\ jobs' = jobs
               /\ messages' = messages
               /\ attempts' = attempts
        /\ (/\ xs[p].pc = "complete"
            /\ xs'[p] # xs[p]) =>
               /\ jobs'[xs[p].job].executed
               /\ ~jobs'[xs[p].job].processing
               /\ xs[p].job \notin DueJobs(jobs', now')
      ]_vars

\* witness: CONFIRM_INITIAL was accepted once, its audit insert failed, the
\* retry was answered with 409 and the job is executed: one send, no row
DuplicateRejectedJobExecuted ==
    \E i \in Ids(jobs) :
        /\ jobs[i].message_type = "CONFIRM_INITIAL"
        /\ jobs[i].executed
        /\ ~jobs[i].processing
        /\ sent[Key(jobs[i].demo_id, jobs[i].message_type)] = 1
        /\ ~MessageExists(messages, jobs[i].demo_id, jobs[i].message_type)

\* the template table sendMessage routes kind k to does not define k
NoTemplateFor(k) ==
    IF k \in SMS_TYPES THEN k \notin SmsTemplateKinds ELSE k \notin EmailTemplateKinds

\* C35: for a claimed job whose kind has no template, sendMessage returns
\* without a transport call, without a Message row and without any failure
\* bookkeeping (the job row is not touched, nothing is counted), and the
\* executor's next step, markCompleted, leaves the job executed and unclaimed.
MissingTemplateIsSkip ==
    [][\A p \in Executors :
        /\ (/\ xs[p].pc = "send"
            /\ NoTemplateFor(jobs[xs[p].job].message_type)
            /\ xs'[p] # xs[p]) =>
               /\ xs'[p].pc = "complete"
               /\ xs'[p].job = xs[p].job
               /\ sent' = sent
               /\ attempts' = attempts
               /\ messages' = messages
               /\ jobs' = jobs
        /\ (/\ xs[p].pc = "complete"
            /\ NoTemplateFor(jobs[xs[p].job].message_type)
            /\ xs'[p] # xs[p]) =>
               /\ jobs'[xs[p].job] = [jobs[xs[p].job] EXCEPT !.executed = TRUE,
                                         !.processing = FALSE,
                                         !.processing_started_at = NULL]
               /\ xs'[p].res # "error"
      ]_vars

\* witness: the SMS_DAY_BEFORE job of an open booking (routed to the email
\* templates, which do not define it) is executed; nothing was sent, counted
\* or recorded for it
DayBeforeExecutedUnsent ==
    \E i \in Ids(jobs) :
        /\ jobs[i].message_type = "SMS_DAY_BEFORE"
        /\ jobs[i].executed
        /\ ~jobs[i].processing
        /\ demos[jobs[i].demo_id].status \in OpenStatuses
        /\ sent[Key(jobs[i].demo_id, jobs[i].message_type)] = 0
        /\ attempts[Key(jobs[i].demo_id, jobs[i].message_type)] = 0
        /\ ~MessageExists(messages, jobs[i].demo_id, jobs[i].message_type)

\* the request of the transport call p is making
RequestOf(p) ==
    LET job == jobs[xs[p].job]
    IN  TransportRequest(demos[job.demo_id], job.message_type, idempotencyKey(job))

\* C36: every request an executor hands to the transport carries the
\* idempotency key of its job's (booking, kind).
EverySendCarriesKey ==
    \A p \in Executors :
        xs[p].pc = "transport" =>
            /\ "idempotency_key" \in DOMAIN RequestOf(p)
            /\ RequestOf(p).idempotency_key = idempotencyKey(jobs[xs[p].job])

\* C37: from an invocation's successful claim of a job to that invocation's
\* own release or markCompleted no other invocation holds the job (however
\* long the first one runs), and while an invocation holds a job only a step
\* of that invocation clears the job's claim.
OneHolderPerJob ==
    [][/\ \A i \in Ids(jobs) : \A p \in Executors : \A q \in Executors \ {p} :
            ~(HeldBy(p, i) /\ HeldBy(q, i))
       /\ \A i \in Ids(jobs) :
            (/\ jobs[i].processing
             /\ ~jobs'[i].processing
             /\ \E p \in Executors : HeldBy(p, i)) =>
                \E p \in Executors : HeldBy(p, i) /\ xs'[p] # xs[p]
      ]_vars

\* C38: once a booking-cancelled event has been handled (the booking is
\* CANCELLED and no handler is running), every job of the booking is executed
\* or cancelled, so no sweep that claims afterwards finds a job of it to
\* dispatch.
CancelledBookingStaysSilent ==
    [][\A d \in Ids(demos) :
         (/\ demos[d].status = "CANCELLED"
          /\ \A h \in Handlers : hs[h].pc = "idle") =>
             /\ \A i \in Ids(jobs) :
                    jobs[i].demo_id = d => jobs[i].executed \/ jobs[i].cancelled
             /\ \A p \in Executors : \A i \in Ids(jobs) :
                    (jobs[i].demo_id = d /\ ClaimStepOf(p, i)) => xs'[p].pc # "lookup"
      ]_vars

\* C39: every job written by scheduleSequence that reaches sendMessage is of a
\* kind that the template table it is routed to defines, so no such job is
\* marked executed because getTemplate returned null.
ScheduledKindsHaveTemplates ==
    \A p \in Executors :
        xs[p].pc = "send" => ~NoTemplateFor(jobs[xs[p].job].message_type)

\* the anchored alternatives of parseIntent's patterns, per intent
AllowList(intent) ==
    CASE intent = "YES" ->
            { <<"yes">>, <<"yep">>, <<"yeah">>, <<"yup">>, <<"y">>, <<"confirm">>,
              <<"confirmed">>, <<"i'm", "in">>, <<"im", "in">>, <<"count", "me", "in">>,
              <<"see", "you">>, <<"sounds", "good">>, <<"perfect">>, <<"great">>,
              <<"ok">>, <<"okay">>, <<"good">> }
      [] intent = "RESCHEDULE" ->
            { <<"reschedule">>, <<"cancel">>, <<"can't">>, <<"cant">>, <<"cannot">>,
              <<"won't">>, <<"wont">>, <<"unable">>, <<"no">>, <<"nope">>, <<"n">>,
              <<"change">>, <<"move">>, <<"different", "time">>, <<"another", "time">> }
      [] intent = "SOONER" ->
            { <<"sooner">>, <<"earlier">>, <<"asap">>, <<"now">>, <<"today">>, <<"tomorrow">> }
      [] intent = "1" -> { <<"1">> }
      [] intent = "2" -> { <<"2">> }

\* bodies that no pattern of parseIntent matches
NoPatternBodies == { <<"hello">>, <<"maybe", "later">>, <<"no", "problem">>, <<"yesterday">> }

\* C40: a reply whose body is an allow-list token of an intent is recorded with
\* that intent, whatever keyword patterns are tried before that intent's
\* allow-list, and a reply whose body matches no pattern is recorded UNKNOWN.
ExactTokenDecidesIntent ==
    [][\A from \in ReplyEmails : \A body \in IntentBodies :
         EmailReply("h1", from, body) =>
            /\ \A intent \in {"YES", "RESCHEDULE", "SOONER", "1", "2"} :
                  body \in AllowList(intent) => replies'[Len(replies')].intent = intent
            /\ body \in NoPatternBodies => replies'[Len(replies')].intent = "UNKNOWN"
      ]_vars

\* witness: a reply was classified by an allow-list that is consulted after
\* the keyword patterns of two other intents (only "sooner", "earlier",
\* "asap", "now", "today" and "tomorrow" give SOONER)
ClassifiedByLateAllowList ==
    \E i \in Ids(replies) :
        /\ replies[i].channel = "EMAIL"
        /\ replies[i].intent = "SOONER"
        /\ replies[i].processed

====
